---- MODULE Spec2Model ----
(***************************************************************************)
(* Session synchronisation between the Portal and the Server of the        *)
(* Spacebase/Evennia code base.                                            *)
(*                                                                         *)
(*   PortalSessionHandler  src/evennia/server/portal/portalsessionhandler.py *)
(*   ServerSessionHandler  src/evennia/server/sessionhandler.py            *)
(*                                                                         *)
(* Time is counted in ticks of a quarter of a second (TicksPerSecond).     *)
(* reactor.callLater(d, f) is a pending call with a due time; the reactor  *)
(* runs it at its due time or later.                                       *)
(***************************************************************************)
EXTENDS Integers, Sequences, FiniteSets, TLC

\* ------------------------------------------------------------------------
\* Bounds of the model
\* ------------------------------------------------------------------------
MaxTime == 6
MaxSessions == 3
MaxLate == 1
MaxInFlight == 1
MaxCleans == 2
MaxInstr == 2
MaxDataTime == MaxTime + 2          \* clock limit of SpecData
MaxServerTime == MaxTime - 4        \* clock limit of SpecServer
MaxServerSessions == MaxSessions - 1
MaxSystemTime == MaxTime - 2        \* clock limit of SpecSystem

\* ------------------------------------------------------------------------
\* Program constants
\* ------------------------------------------------------------------------
TicksPerSecond == 4
MAX_CONNECTION_RATE == 2
MIN_TIME_BETWEEN_CONNECTS == TicksPerSecond \div MAX_CONNECTION_RATE
MAX_COMMAND_RATE == 2
INLINEFUNC_ENABLED == TRUE

None == -1
NoUid == 0
Players == {1, 2}       \* uids of the players in the database
UnknownUid == 3         \* a uid no player has

PCONN == "PCONN"
PDISCONN == "PDISCONN"
PCONNSYNC == "PCONNSYNC"
PSYNC == "PSYNC"
SLOGIN == "SLOGIN"
SDISCONN == "SDISCONN"
SSYNC == "SSYNC"

VARIABLES
    now,                \* time(), in ticks
    amp_protocol,       \* self.portal.amp_protocol is set (the link to the Server is up)
    latest_sessid,      \* PortalSessionHandler.latest_sessid
    CONNECTION_QUEUE,   \* _CONNECTION_QUEUE, leftmost element first
    ptable,             \* the PortalSessionHandler dict: sessid -> session
    connection_last,    \* PortalSessionHandler.connection_last
    connection_task,    \* PortalSessionHandler.connection_task (due time of the call, or None)
    connect_calls,      \* pending reactor.callLater(.., self.connect, None): due times
    p2s,                \* messages sent Portal -> Server, oldest first
    queued_notice,      \* sessid -> wait announced by the "You are queued" notice
    pclosed,            \* sessids whose transport has called disconnect()
    dropped,            \* history: sessids that called disconnect() while in the queue
    portal_op,          \* history: the last Server-initiated operation on the Portal
    autoauth,           \* history: sessids of sessions their protocol had authenticated
    assigned,           \* history: sessids handed out by connect(), in order
    admitted,           \* history: <<sessid, time>> of each admission, in order
    command_counter,        \* PortalSessionHandler.command_counter
    command_counter_reset,  \* PortalSessionHandler.command_counter_reset
    command_overflow,       \* PortalSessionHandler.command_overflow
    datain_calls,       \* pending reactor.callLater(1.0, self.data_in, None): due times
    data_result,        \* what the last data_in(session, ..) did: "forwarded" / "rejected"
    arrivals,           \* history: times of the latest data_in(session, ..) calls
    raised_at,          \* history: when command_overflow was last raised
    MULTISESSION_MODE,  \* settings.MULTISESSION_MODE
    IDLE_TIMEOUT,       \* settings.IDLE_TIMEOUT, in ticks
    stable,             \* the ServerSessionHandler dict: sessid -> session
    is_connected,       \* player.is_connected of every player
    s2p,                \* messages sent Server -> Portal, oldest first
    server_op,          \* history: the last Server operation, the sessions it removed (n)
                        \* and the messages it sent
    sdisconn_sent,      \* history: sessid -> number of SDISCONN sent for it
    login_done,         \* history: sessids the login procedure has run for
    loginstart,         \* history: sessid -> number of login-start commands dispatched
    cs_kwargs,          \* clean_senddata: the payload at hand
    cs_prev,            \* clean_senddata: the payload the last call was given
    cs_n,               \* clean_senddata: number of calls made on the payload
    cs_server,          \* clean_senddata: self is the ServerSessionHandler
    cs_encoding,        \* clean_senddata: session.protocol_flags["ENCODING"]
    io_call,            \* the call at hand of a handler method: its name and arguments
    io_result,          \* what that call did, once it has run
    menu,               \* the EvMenu object made last: its tree, node, options and default
    caller              \* the user of the menu: cmdset, ndb._menutree and what was run

admitVars == <<amp_protocol, latest_sessid, CONNECTION_QUEUE, ptable, connection_last,
               connection_task, connect_calls, p2s, queued_notice, pclosed, dropped, portal_op, autoauth,
               assigned, admitted>>

dataVars == <<command_counter, command_counter_reset, command_overflow, datain_calls,
              data_result, arrivals, raised_at>>

serverVars == <<MULTISESSION_MODE, IDLE_TIMEOUT, stable, is_connected, s2p, server_op,
                sdisconn_sent, login_done, loginstart>>

cleanVars == <<cs_kwargs, cs_prev, cs_n, cs_server, cs_encoding>>

ioVars == <<io_call, io_result>>
menuVars == <<menu, caller>>

vars == <<now, admitVars, dataVars, serverVars, cleanVars, ioVars, menuVars>>

\* ------------------------------------------------------------------------
\* Helpers
\* ------------------------------------------------------------------------
\* no Server-initiated operation has run on the Portal: op names the method,
\* err tells whether it raised, hooked holds the sessids whose own
\* disconnect(reason) was called
NoPortalOp == [op |-> "none", err |-> FALSE, hooked |-> {}]

Range(s) == {s[i] : i \in 1..Len(s)}

RECURSIVE SeqRemoveFirst(_, _)
\* deque.remove(x): removes the first (leftmost) occurrence
SeqRemoveFirst(s, x) ==
    IF s = <<>> THEN <<>>
    ELSE IF Head(s) = x THEN Tail(s)
    ELSE <<Head(s)>> \o SeqRemoveFirst(Tail(s), x)

\* the sequence without its i-th element
RemoveCall(calls, i) == SubSeq(calls, 1, i - 1) \o SubSeq(calls, i + 1, Len(calls))

\* reactor.callLater(delay, f): a call due delay ticks from now
callLater_Never(calls, delay) == calls

callLater(calls, delay) == Append(calls, now + delay)

\* A portal session object as the protocol creates it, before connect().
NewPortalSession(loggedin, uid) ==
    [sessid |-> 0, logged_in |-> loggedin, uid |-> uid,
     server_connected |-> FALSE, cmd_last |-> now, encoding |-> "utf-8"]

\* Session.get_sync_data(): the synced attributes of a session
get_sync_data(sess) ==
    [sessid |-> sess.sessid, logged_in |-> sess.logged_in, uid |-> sess.uid,
     cmd_last |-> sess.cmd_last, encoding |-> sess.encoding]

QueueSessids == {CONNECTION_QUEUE[i].sessid : i \in 1..Len(CONNECTION_QUEUE)}

\* ------------------------------------------------------------------------
\* Python values of a send payload.  Every value is a node
\*   [t: type tag, a: atom text, c: elements of a list/tuple, d: dict entries]
\* and a dict entry is [k: key text, v: node].
\* ------------------------------------------------------------------------
PyAtom(tag, text) == [t |-> tag, a |-> text, c |-> <<>>, d |-> {}]
PyNone == PyAtom("none", "")
PyStr(text) == PyAtom("str", text)          \* a byte string
PyUni(text) == PyAtom("unicode", text)      \* a unicode string
PyNum(text) == PyAtom("num", text)
PyBool(text) == PyAtom("bool", text)
PyObj(text) == PyAtom("dbobj", text)        \* a database object whose unicode() is text
PyOther(text) == PyAtom("object", text)     \* any other object, such as an exception
PyList(elems) == [t |-> "list", a |-> "", c |-> elems, d |-> {}]
PyTuple(elems) == [t |-> "tuple", a |-> "", c |-> elems, d |-> {}]
PyDict(entries) == [t |-> "dict", a |-> "", c |-> <<>>, d |-> entries]
KV(key, val) == [k |-> key, v |-> val]

\* bool(x)
Truthy(x) ==
    CASE x.t = "none" -> FALSE
      [] x.t \in {"str", "unicode"} -> x.a # ""
      [] x.t = "num" -> x.a # "0"
      [] x.t = "bool" -> x.a = "True"
      [] x.t \in {"list", "tuple"} -> x.c # <<>>
      [] x.t = "dict" -> x.d # {}
      [] OTHER -> TRUE

\* hasattr(x, "__iter__") in Python 2: true of lists, tuples and dicts, not of strings
HasIter(x) == x.t \in {"list", "tuple", "dict"}

HasKey(dn, key) == \E e \in dn.d : e.k = key

\* dict.get(key, default)
DictGet(dn, key, default) ==
    IF HasKey(dn, key) THEN (CHOOSE e \in dn.d : e.k = key).v ELSE default

\* dict[key] = val
DictSet(dn, key, val) ==
    [dn EXCEPT !.d = {e \in @ : e.k # key} \cup {KV(key, val)}]

\* dict.pop(key): the dict without the key
DictPop(dn, key) == [dn EXCEPT !.d = {e \in @ : e.k # key}]

ValidEncodings == {"utf-8", "latin-1"}

\* parse_inlinefunc(text, strip): "$f()" is the one inline function call of the model
parse_inlinefunc(text, strip) ==
    IF text = "$f()" THEN (IF strip THEN "" ELSE "f-out") ELSE text

\* ------------------------------------------------------------------------
\* SessionHandler.clean_senddata
\* ------------------------------------------------------------------------
\* lines 154-156
CleanOptions(kwargs) ==
    LET o == DictGet(kwargs, "options", PyNone)
    IN  IF Truthy(o) THEN o ELSE PyDict({})

\* lines 167-178: a string is re-encoded; on the Server inline functions are expanded
ValidateString(data, isServer, inlineEnabled, raw, strip) ==
    LET conv == IF data.a # "" THEN PyStr(data.a) ELSE data
    IN  IF inlineEnabled /\ ~raw /\ isServer
        THEN [conv EXCEPT !.a = parse_inlinefunc(@, strip)]
        ELSE conv

RECURSIVE Validate(_, _, _, _, _)
\* lines 158-184: _validate
Validate(data, isServer, inlineEnabled, raw, strip) ==
    CASE data.t = "dict" ->
            PyDict({KV(e.k, Validate(e.v, isServer, inlineEnabled, raw, strip)) : e \in data.d})
      [] data.t \in {"list", "tuple"} ->
            PyList([i \in 1..Len(data.c) |->
                       Validate(data.c[i], isServer, inlineEnabled, raw, strip)])
      [] data.t \in {"str", "unicode"} ->
            ValidateString(data, isServer, inlineEnabled, raw, strip)
      [] data.t = "dbobj" ->
            ValidateString(PyUni(data.a), isServer, inlineEnabled, raw, strip)
      [] OTHER -> data

\* line 206: rkwargs[key][1]["options"] = options
SetOptions(kw, options) == DictSet(kw, "options", options)

\* lines 189-205: the canonical [args, kwargs] pair of one instruction value
CleanValue(data, isServer, inlineEnabled, raw, strip) ==
    LET V(x) == Validate(x, isServer, inlineEnabled, raw, strip)
        n == Len(data.c)
    IN  IF ~Truthy(data) THEN <<PyList(<<>>), PyDict({})>>
        ELSE IF data.t = "dict" THEN <<PyList(<<>>), V(data)>>
        ELSE IF HasIter(data)
        THEN IF data.c[n].t = "dict"
             THEN IF n = 2
                  THEN IF HasIter(data.c[1])
                       THEN <<V(data.c[1]), V(data.c[2])>>
                       ELSE <<PyList(<<V(data.c[1])>>), V(data.c[2])>>
                  ELSE <<V([data EXCEPT !.c = SubSeq(@, 1, n - 1)]), V(data.c[n])>>
             ELSE <<V(data), PyDict({})>>
        ELSE <<PyList(<<V(data)>>), PyDict({})>>

\* lines 154-207: clean_senddata(session, kwargs)
clean_senddata(kwargs, isServer, inlineEnabled) ==
    LET options == CleanOptions(kwargs)
        raw == Truthy(DictGet(options, "raw", PyBool("False")))
        strip == Truthy(DictGet(options, "strip_inlinefunc", PyBool("False")))
        rest == DictPop(kwargs, "options")
        Key(k) == ValidateString(PyStr(k), isServer, inlineEnabled, raw, strip).a
        Pair(data) == CleanValue(data, isServer, inlineEnabled, raw, strip)
    IN  PyDict({KV(Key(e.k),
                   PyList(<<Pair(e.v)[1], SetOptions(Pair(e.v)[2], options)>>)) : e \in rest.d})

\* lines 169-174: session.protocol_flags["ENCODING"] after the call
CleanEncoding(encoding, kwargs) ==
    IF encoding \notin ValidEncodings /\ DictPop(kwargs, "options").d # {}
    THEN "utf-8" ELSE encoding

\* ------------------------------------------------------------------------
\* PortalSessionHandler.connect
\* ------------------------------------------------------------------------

\* lines 84-93: a real session gets the next sessid and goes to the left end
ConnectSessid_Reuse == Len(CONNECTION_QUEUE) + Cardinality(DOMAIN ptable) + 1

ConnectSessid == latest_sessid + 1

ConnectEnqueue(session) ==
    LET s == [session EXCEPT !.sessid = ConnectSessid, !.server_connected = FALSE]
    IN  <<s>> \o CONNECTION_QUEUE

\* line 95: the admission gate
ConnectTooSoon_NoGate == ~amp_protocol

ConnectTooSoon == (now - connection_last < MIN_TIME_BETWEEN_CONNECTS) \/ ~amp_protocol

\* line 110: _CONNECTION_QUEUE.pop() takes the rightmost element
PopIndex_Left(q) == 1

PopIndex(q) == Len(q)

\* line 114 left out: the session is stored as it came off the queue
Admitted_Unmarked(session) == session

\* line 114: session.server_connected = True
Admitted(session) == [session EXCEPT !.server_connected = TRUE]

\* line 96 without its test: every deferred call schedules a tick
ConnectSchedules_Always(hasSession) == TRUE

\* line 96: a deferred call schedules a tick if it is the tick itself or no
\* tick is on record
ConnectSchedules(hasSession) == ~hasSession \/ connection_task = None

\* lines 94-117, given the queue q after the enqueue step.
\* hasSession: connect was called with a session (not by the scheduled call).
ConnectBody(hasSession, q, calls) ==
    IF ConnectTooSoon
    THEN \* defer
         /\ IF ConnectSchedules(hasSession)
            THEN /\ connect_calls' = callLater(calls, MIN_TIME_BETWEEN_CONNECTS)
                 /\ connection_task' = now + MIN_TIME_BETWEEN_CONNECTS
            ELSE /\ connect_calls' = calls
                 /\ connection_task' = connection_task
         /\ connection_last' = now
         /\ CONNECTION_QUEUE' = q
         /\ UNCHANGED <<ptable, p2s, admitted>>
    ELSE /\ IF ~hasSession
            THEN IF q # <<>>
                 THEN /\ connect_calls' = callLater(calls, MIN_TIME_BETWEEN_CONNECTS)
                      /\ connection_task' = now + MIN_TIME_BETWEEN_CONNECTS
                 ELSE /\ connect_calls' = calls
                      /\ connection_task' = None
            ELSE /\ connect_calls' = calls
                 /\ connection_task' = connection_task
         /\ connection_last' = now
         /\ IF q # <<>>
            THEN LET popped == q[PopIndex(q)]
                     session == Admitted(popped)
                 IN  /\ CONNECTION_QUEUE' = RemoveCall(q, PopIndex(q))
                     /\ ptable' = [k \in DOMAIN ptable \cup {popped.sessid} |->
                                     IF k = popped.sessid THEN session ELSE ptable[k]]
                     /\ p2s' = Append(p2s, [operation |-> PCONN, sessid |-> popped.sessid,
                                            sessiondata |-> get_sync_data(popped)])
                     /\ admitted' = Append(admitted, <<popped.sessid, now>>)
            ELSE /\ CONNECTION_QUEUE' = q
                 /\ UNCHANGED <<ptable, p2s, admitted>>

\* lines 90-93 with the test of line 90 left out: the notice is always sent
ConnectNotice_Always(q) ==
    [k \in DOMAIN queued_notice \cup {ConnectSessid} |->
        IF k = ConnectSessid THEN Len(q) * MIN_TIME_BETWEEN_CONNECTS
        ELSE queued_notice[k]]

\* lines 90-93: the notices sent so far, after the session just put on the
\* queue q was told its wait if q holds more than one entry
ConnectNotice(q) ==
    IF Len(q) > 1
    THEN [k \in DOMAIN queued_notice \cup {ConnectSessid} |->
             IF k = ConnectSessid THEN Len(q) * MIN_TIME_BETWEEN_CONNECTS
             ELSE queued_notice[k]]
    ELSE queued_notice

\* connect(session): a protocol registers a new connection
PortalConnect(loggedin, uid) ==
    /\ LET q == ConnectEnqueue(NewPortalSession(loggedin, uid))
       IN  /\ latest_sessid' = ConnectSessid
           /\ assigned' = Append(assigned, ConnectSessid)
           /\ queued_notice' = ConnectNotice(q)
           /\ ConnectBody(TRUE, q, connect_calls)
    /\ autoauth' = IF loggedin THEN autoauth \cup {ConnectSessid} ELSE autoauth
    /\ UNCHANGED <<now, amp_protocol, pclosed, dropped, portal_op, dataVars, serverVars, cleanVars, ioVars, menuVars>>

\* connect(None): the call scheduled with reactor.callLater runs
ConnectTick ==
    \E i \in 1..Len(connect_calls) :
        /\ connect_calls[i] <= now
        /\ ConnectBody(FALSE, CONNECTION_QUEUE, RemoveCall(connect_calls, i))
        /\ UNCHANGED <<now, amp_protocol, latest_sessid, assigned, queued_notice, pclosed, dropped, portal_op,
                       autoauth,
                       dataVars, serverVars, cleanVars, ioVars, menuVars>>

\* ------------------------------------------------------------------------
\* PortalSessionHandler.sync
\* ------------------------------------------------------------------------
\* lines 137-143: the keys of the sync data that sync(session) sends, all of them
SyncFields_All == {"sessid", "logged_in", "uid", "cmd_last", "encoding"}

\* lines 137-143: the keys of the sync data that sync(session) sends
SyncFields ==
    {"protocol_key", "address", "sessid", "csessid", "conn_time", "protocol_flags",
     "server_data"}

\* lines 136-143: the restricted copy of sessdata
SyncData(sessdata) == [key \in DOMAIN sessdata \cap SyncFields |-> sessdata[key]]

\* the sessions a protocol may call sync for: queued, admitted, or not connected
SyncCandidates ==
    Range(CONNECTION_QUEUE) \cup {ptable[k] : k \in DOMAIN ptable}
        \cup {NewPortalSession(FALSE, NoUid)}

\* lines 119-146: sync(session)
PortalSessionSync(session) ==
    /\ p2s' = IF session.sessid # 0 /\ session.server_connected /\ amp_protocol
              THEN Append(p2s, [operation |-> PCONNSYNC, sessid |-> session.sessid,
                                sessiondata |-> SyncData(get_sync_data(session))])
              ELSE p2s
    /\ UNCHANGED <<now, amp_protocol, latest_sessid, CONNECTION_QUEUE, ptable,
                   connection_last, connection_task, connect_calls, queued_notice, pclosed,
                   dropped, portal_op, autoauth, assigned, admitted, dataVars, serverVars,
                   cleanVars, ioVars, menuVars>>

\* ------------------------------------------------------------------------
\* PortalSessionHandler.disconnect
\* ------------------------------------------------------------------------
\* the queue-membership test of disconnect (line 158), never true
InQueue_Never(sid) == FALSE

\* the queue-membership test of disconnect (line 158)
InQueue(sid) == sid \in QueueSessids

PortalDisconnect(sid) ==
    /\ sid \in 1..latest_sessid
    /\ sid \notin pclosed
    /\ pclosed' = pclosed \cup {sid}
    /\ dropped' = IF sid \in QueueSessids THEN dropped \cup {sid} ELSE dropped
    /\ IF InQueue(sid)
       THEN /\ CONNECTION_QUEUE' =
                  SeqRemoveFirst(CONNECTION_QUEUE,
                                 CHOOSE s \in Range(CONNECTION_QUEUE) : s.sessid = sid)
            /\ p2s' = p2s
       ELSE /\ CONNECTION_QUEUE' = CONNECTION_QUEUE
            /\ p2s' = Append(p2s, [operation |-> PDISCONN, sessid |-> sid,
                                   sessiondata |-> <<>>])
    /\ UNCHANGED <<now, amp_protocol, latest_sessid, ptable, connection_last,
                   connection_task, connect_calls, queued_notice, assigned, admitted,
                   autoauth, portal_op, dataVars, serverVars, cleanVars, ioVars, menuVars>>

\* ------------------------------------------------------------------------
\* PortalSessionHandler.data_in
\* ------------------------------------------------------------------------
\* session.attr = value on a session that sits in the table or in the queue
SetCmdLast(sess, sid, kwargs) ==
    IF sess.sessid = sid
    THEN [sess EXCEPT !.cmd_last = now, !.encoding = CleanEncoding(@, kwargs)]
    ELSE sess

\* the latest arrivals that lie less than a second before now, newest last
RecentArrivals ==
    LET inWindow(t) == now - t < TicksPerSecond
        w == Append(SelectSeq(arrivals, inWindow), now)
    IN  IF Len(w) > MAX_COMMAND_RATE + 2
        THEN SubSeq(w, Len(w) - MAX_COMMAND_RATE - 1, Len(w))
        ELSE w

\* line 332: the flag is raised when the counter overran within a second
OverflowTest(dT) == dT < TicksPerSecond

\* line 330 left out: the counter is not reset by the throttle test
CounterAfterTest_Keep(over) == command_counter

\* line 330: the counter after the throttle test of lines 327-334
CounterAfterTest(over) == IF over THEN 0 ELSE command_counter

\* lines 325-345: data_in(session, **kwargs) with a real session
PortalDataIn(sid, kwargs) ==
    /\ sid \in QueueSessids \cup DOMAIN ptable
    /\ Len(p2s) < MaxInFlight
    /\ arrivals' = RecentArrivals
    /\ LET over == command_counter > MAX_COMMAND_RATE
           dT == now - command_counter_reset
           counter1 == CounterAfterTest(over)
           overflow1 == IF over THEN OverflowTest(dT) ELSE command_overflow
       IN  /\ command_counter_reset' = IF over THEN now ELSE command_counter_reset
           /\ command_overflow' = overflow1
           /\ datain_calls' = IF over /\ overflow1
                               THEN callLater(datain_calls, TicksPerSecond)
                               ELSE datain_calls
           /\ raised_at' = IF over /\ overflow1 THEN now ELSE raised_at
           /\ IF overflow1
              THEN \* the session is sent the overflow notice
                   /\ data_result' = "rejected"
                   /\ command_counter' = counter1
                   /\ UNCHANGED <<ptable, CONNECTION_QUEUE, p2s>>
              ELSE /\ data_result' = "forwarded"
                   /\ command_counter' = counter1 + 1
                   /\ ptable' = [k \in DOMAIN ptable |-> SetCmdLast(ptable[k], sid, kwargs)]
                   /\ CONNECTION_QUEUE' = [i \in 1..Len(CONNECTION_QUEUE) |->
                                              SetCmdLast(CONNECTION_QUEUE[i], sid, kwargs)]
                   /\ p2s' = Append(p2s, [operation |-> "MSG", sessid |-> sid,
                                          kwargs |-> clean_senddata(kwargs, FALSE,
                                                                    INLINEFUNC_ENABLED)])
    /\ UNCHANGED <<now, amp_protocol, latest_sessid, connection_last, connection_task,
                   connect_calls, queued_notice, pclosed, dropped, portal_op, assigned, admitted, autoauth,
                   serverVars, cleanVars, ioVars, menuVars>>

\* lines 346-350: data_in(None), the call scheduled with reactor.callLater
PortalDataInTick ==
    \E i \in 1..Len(datain_calls) :
        /\ datain_calls[i] <= now
        /\ IF command_overflow
           THEN /\ command_overflow' = FALSE
                /\ datain_calls' = callLater(RemoveCall(datain_calls, i), TicksPerSecond)
           ELSE /\ command_overflow' = command_overflow
                /\ datain_calls' = RemoveCall(datain_calls, i)
        /\ UNCHANGED <<now, admitVars, command_counter, command_counter_reset,
                       data_result, arrivals, raised_at, serverVars, cleanVars, ioVars, menuVars>>

\* the AMP link carries the oldest message away to the Server
LinkTransmit ==
    /\ p2s # <<>>
    /\ p2s' = Tail(p2s)
    /\ UNCHANGED <<now, amp_protocol, latest_sessid, CONNECTION_QUEUE, ptable,
                   connection_last, connection_task, connect_calls, queued_notice,
                   pclosed, dropped, portal_op, assigned, admitted, autoauth, dataVars, serverVars, cleanVars, ioVars, menuVars>>

\* ------------------------------------------------------------------------
\* ServerSessionHandler.  Its handlers call each other, so each is an
\* operator on the Server state
\*   [t: the session table, ic: is_connected, out: messages to the Portal,
\*    sd: SDISCONN count, ld: sessids logged in, ls: login-start count]
\* ------------------------------------------------------------------------
ServerState ==
    [t |-> stable, ic |-> is_connected, out |-> s2p, sd |-> sdisconn_sent,
     ld |-> login_done, ls |-> loginstart]

\* dict[key] = val on a table with a growing set of keys
TableSet(tab, key, val) ==
    [k \in DOMAIN tab \cup {key} |-> IF k = key THEN val ELSE tab[k]]

\* del dict[key]
TableDel(tab, key) == [k \in DOMAIN tab \ {key} |-> tab[k]]

\* counter[key] += 1
CountUp(cnt, key) ==
    [k \in DOMAIN cnt \cup {key} |->
        IF k = key THEN (IF key \in DOMAIN cnt THEN cnt[key] + 1 ELSE 1) ELSE cnt[k]]

Min(set) == CHOOSE x \in set : \A y \in set : x <= y

\* _ServerSession(): a fresh Server session
NewServerSession ==
    [sessid |-> 0, logged_in |-> FALSE, uid |-> NoUid, cmd_last |-> now,
     encoding |-> "utf-8", player |-> NoUid]

\* Session.load_sync_data(data): every attribute named in data is overwritten
load_sync_data(sess, data) ==
    [f \in DOMAIN sess |-> IF f \in DOMAIN data THEN data[f] ELSE sess[f]]

\* _PlayerDB.objects.get_player_from_uid(uid)
get_player_from_uid(uid) == IF uid \in Players THEN uid ELSE NoUid

\* lines 578-590: sessions_from_player
sessions_from_player(tab, uid) ==
    {k \in DOMAIN tab : tab[k].logged_in /\ tab[k].uid = uid}

\* ServerSession.at_login(player)
at_login(sess, player) ==
    [sess EXCEPT !.uid = player, !.player = player, !.logged_in = TRUE]

\* ServerSession.at_disconnect(): the player of a logged-in session is marked
\* not connected when no other session of theirs remains
at_disconnect(S, sid) ==
    LET sess == S.t[sid]
        tab1 == [S.t EXCEPT ![sid].logged_in = FALSE]
    IN  IF sess.logged_in /\ sess.player \in Players
        THEN [S EXCEPT !.t = tab1,
                       !.ic = IF sessions_from_player(tab1, sess.player) = {}
                              THEN [@ EXCEPT ![sess.player] = FALSE] ELSE @]
        ELSE S

\* lines 423-450: disconnect(session, reason)
SrvDisconnect_Silent(S, sid) ==
    IF sid \notin DOMAIN S.t THEN S
    ELSE [at_disconnect(S, sid) EXCEPT !.t = TableDel(@, sid)]

SrvDisconnect(S, sid) ==
    IF sid \notin DOMAIN S.t THEN S
    ELSE LET S1 == at_disconnect(S, sid)
         IN  [S1 EXCEPT !.t = TableDel(@, sid),
                        !.out = Append(@, [operation |-> SDISCONN, sessid |-> sid]),
                        !.sd = CountUp(@, sid)]

RECURSIVE SrvDisconnectEach(_, _)
\* for session in sessions: self.disconnect(session, reason)
SrvDisconnectEach(S, sids) ==
    IF sids = {} THEN S
    ELSE SrvDisconnectEach(SrvDisconnect(S, Min(sids)), sids \ {Min(sids)})

\* lines 501-505: the logged-in sessions of the same uid, cur among them
Doublets_Self(tab, cur) ==
    {k \in DOMAIN tab : tab[k].logged_in /\ tab[k].uid = tab[cur].uid}

\* lines 501-505: the other logged-in sessions of the same uid
Doublets(tab, cur) ==
    {k \in DOMAIN tab : tab[k].logged_in /\ tab[k].uid = tab[cur].uid /\ k # cur}

\* lines 491-507: disconnect_duplicate_sessions(curr_session)
disconnect_duplicate_sessions(S, cur) == SrvDisconnectEach(S, Doublets(S.t, cur))

\* line 407: duplicates are evicted under the single-session policy only
EvictsDuplicates_Never == FALSE

EvictsDuplicates == MULTISESSION_MODE = 0

\* lines 384-386: a session that is logged in is not logged in again unless forced
LoginRefused_Never(sess, force) == FALSE

LoginRefused(sess, force) == sess.logged_in /\ ~force

\* lines 368-421: login(session, player, force, testmode)
SrvLogin(S, sid, player, force, testmode) ==
    IF LoginRefused(S.t[sid], force) THEN S
    ELSE LET S1 == [S EXCEPT !.ic = IF sessions_from_player(S.t, player) = {}
                                    THEN [@ EXCEPT ![player] = TRUE] ELSE @,
                             !.t = [@ EXCEPT ![sid] = at_login(@, player)]]
             S2 == IF EvictsDuplicates THEN disconnect_duplicate_sessions(S1, sid) ELSE S1
         IN  [S2 EXCEPT !.t = [@ EXCEPT ![sid].logged_in = TRUE],
                        !.out = IF testmode THEN @
                                ELSE Append(@, [operation |-> SLOGIN, sessid |-> sid,
                                                sessiondata |-> [logged_in |-> TRUE]]),
                        !.ld = @ \cup {sid}]

\* line 273: data_in(sess, text=[[CMD_LOGINSTART],{}]): the text inputfunc runs
\* the login-start command and updates the session counters
SrvLoginStart_None(S, sid) == S

SrvLoginStart(S, sid) ==
    [S EXCEPT !.ls = CountUp(@, sid), !.t = [@ EXCEPT ![sid].cmd_last = now]]

\* lines 269-270: no player has the uid the Portal sent
NotLoggedIn_Keep(sess) == sess

NotLoggedIn(sess) == [sess EXCEPT !.logged_in = FALSE, !.uid = NoUid]

\* lines 238-273: portal_connect(portalsessiondata)
SrvPortalConnect(S, data) ==
    LET sess == load_sync_data(NewServerSession, data)
        sid == sess.sessid
        S1 == [S EXCEPT !.t = TableSet(@, sid, sess)]
    IN  IF sess.logged_in /\ sess.uid # NoUid
        THEN IF get_player_from_uid(sess.uid) # NoUid
             THEN SrvLogin(S1, sid, get_player_from_uid(sess.uid), TRUE, FALSE)
             ELSE SrvLoginStart([S1 EXCEPT !.t = [@ EXCEPT ![sid] = NotLoggedIn(@)]], sid)
        ELSE SrvLoginStart(S1, sid)

\* line 519: a session is idle when its last command is older than the timeout
IsIdle_Inclusive(sess) == now - sess.cmd_last >= IDLE_TIMEOUT

IsIdle(sess) == now - sess.cmd_last > IDLE_TIMEOUT

\* lines 509-520: validate_sessions()
validate_sessions(S) ==
    SrvDisconnectEach(S, {k \in DOMAIN S.t :
                             S.t[k].logged_in /\ IDLE_TIMEOUT > 0 /\ IsIdle(S.t[k])})

\* lines 275-294: portal_session_sync(portalsessiondata)
portal_session_sync_Create(S, data) ==
    [S EXCEPT !.t = TableSet(@, data.sessid, load_sync_data(NewServerSession, data))]

portal_session_sync(S, data) ==
    IF data.sessid \in DOMAIN S.t
    THEN [S EXCEPT !.t = [@ EXCEPT ![data.sessid] = load_sync_data(@, data)]]
    ELSE S

\* lines 120-129: get_all_sync_data()
get_all_sync_data_LoggedIn(tab) ==
    [k \in {j \in DOMAIN tab : tab[j].logged_in} |-> get_sync_data(tab[k])]

get_all_sync_data(tab) == [k \in DOMAIN tab |-> get_sync_data(tab[k])]

RestartNotice == PyDict({KV("text", PyStr(" ... Server restarted."))})

RECURSIVE AnnounceAll(_, _, _)
\* lines 620-629 and 631-648: announce_all(message) sends a cleaned text to every session
AnnounceAll(out, sids, kwargs) ==
    IF sids = {} THEN out
    ELSE AnnounceAll(Append(out, [operation |-> "MSG", sessid |-> Min(sids),
                                  kwargs |-> clean_senddata(kwargs, TRUE, INLINEFUNC_ENABLED)]),
                     sids \ {Min(sids)}, kwargs)

\* lines 315-322: the session rebuilt from one entry of the Portal's data
SyncedSession(sessdict) ==
    LET sess == load_sync_data(NewServerSession, sessdict)
    IN  IF sess.uid # NoUid
        THEN [sess EXCEPT !.player = get_player_from_uid(sess.uid)]
        ELSE sess

\* lines 296-330: portal_sessions_sync(portalsessionsdata)
portal_sessions_sync(S, data) ==
    LET tab == [k \in DOMAIN S.t \cup DOMAIN data |->
                   IF k \in DOMAIN data THEN SyncedSession(data[k]) ELSE S.t[k]]
    IN  [S EXCEPT !.t = tab, !.out = AnnounceAll(@, DOMAIN tab, RestartNotice)]

\* the Server state becomes S; op names the operation that ran
ServerCommit(S, op) ==
    \E R \in {S} :
        /\ stable' = R.t
        /\ is_connected' = R.ic
        /\ s2p' = R.out
        /\ sdisconn_sent' = R.sd
        /\ login_done' = R.ld
        /\ loginstart' = R.ls
        /\ server_op' = [op EXCEPT !.n = Cardinality(DOMAIN stable \ DOMAIN R.t),
                                   !.sent = Len(R.out) - Len(s2p)]
        /\ UNCHANGED <<MULTISESSION_MODE, IDLE_TIMEOUT>>

\* ------------------------------------------------------------------------
\* Server operations as steps
\* ------------------------------------------------------------------------
\* no Server operation has run yet
NoOp == [op |-> "none", sid |-> 0, n |-> 0, sent |-> 0]

Op(name, sid) == [NoOp EXCEPT !.op = name, !.sid = sid]

PortalUnchanged == UNCHANGED <<now, admitVars, dataVars, cleanVars, ioVars, menuVars>>

\* the sync data a PCONN carries for a new session
ConnectPayload(sid, loggedin, uid) ==
    [get_sync_data(NewPortalSession(loggedin, uid)) EXCEPT !.sessid = sid]

\* portal_connect(data) for a session id the Server has not seen
ServerPortalConnect(data) ==
    /\ data.sessid \notin DOMAIN stable \cup DOMAIN sdisconn_sent
    /\ ServerCommit(SrvPortalConnect(ServerState, data),
                    Op("portal_connect", data.sessid))
    /\ PortalUnchanged

\* login(session, player, force, testmode) for a session of the table
ServerLogin(sid, player, force, testmode) ==
    /\ sid \in DOMAIN stable
    /\ ServerCommit(SrvLogin(ServerState, sid, player, force, testmode),
                    Op("login", sid))
    /\ PortalUnchanged

\* disconnect(session)
ServerDisconnect(sid) ==
    /\ ServerCommit(SrvDisconnect(ServerState, sid), Op("disconnect", sid))
    /\ PortalUnchanged

\* portalsessionhandler.py lines 133-143: the fields sync(session) sends with
\* PCONNSYNC; of the attributes modelled only sessid is among them
SyncPayload(sid) == [sessid |-> sid]

\* portal_session_sync(data) for the PCONNSYNC of a Portal session
ServerPortalSessionSync(data) ==
    /\ ServerCommit(portal_session_sync(ServerState, data), Op(PCONNSYNC, data.sessid))
    /\ PortalUnchanged

\* disconnect_duplicate_sessions(curr_session) for a session of the table
ServerDisconnectDuplicates(cur) ==
    /\ cur \in DOMAIN stable
    /\ ServerCommit(disconnect_duplicate_sessions(ServerState, cur), Op("duplicates", cur))
    /\ PortalUnchanged

\* validate_sessions(), the periodic sweep
ServerValidateSessions ==
    /\ ServerCommit(validate_sessions(ServerState), Op("validate", 0))
    /\ PortalUnchanged

\* data = get_all_sync_data(); the handler is cleared; portal_sessions_sync(data)
ServerResyncRoundTrip ==
    /\ s2p = <<>>
    /\ stable # <<>>
    /\ ServerCommit(portal_sessions_sync([ServerState EXCEPT !.t = <<>>],
                                          get_all_sync_data(stable)),
                    Op("roundtrip", 0))
    /\ PortalUnchanged

\* portal_sessions_sync(data) with the Portal's data of some of the sessions
\* the Server holds
ServerPortalSessionsSync(keys) ==
    /\ keys \subseteq DOMAIN stable
    /\ ServerCommit(portal_sessions_sync(ServerState, get_all_sync_data([k \in keys |-> stable[k]])),
                    Op("sessions_sync", 0))
    /\ PortalUnchanged

\* the AMP link carries the oldest Server message away to the Portal
LinkTransmitS2P ==
    /\ s2p # <<>>
    /\ s2p' = Tail(s2p)
    /\ UNCHANGED <<MULTISESSION_MODE, IDLE_TIMEOUT, stable, is_connected, server_op,
                   sdisconn_sent, login_done, loginstart>>
    /\ PortalUnchanged

\* ------------------------------------------------------------------------
\* The AMP link between the two processes: the receiving side runs the
\* handler named by the operation of the oldest message
\* ------------------------------------------------------------------------
\* the Server receives a Portal message: PCONN runs portal_connect, PDISCONN
\* runs disconnect for the session of that id, PSYNC runs portal_sessions_sync,
\* PCONNSYNC runs portal_session_sync
ServerReceive(S, msg) ==
    IF msg.operation = PCONN THEN SrvPortalConnect(S, msg.sessiondata)
    ELSE IF msg.operation = PDISCONN THEN SrvDisconnect(S, msg.sessid)
    ELSE IF msg.operation = PSYNC THEN portal_sessions_sync(S, msg.sessiondata)
    ELSE IF msg.operation = PCONNSYNC THEN portal_session_sync(S, msg.sessiondata)
    ELSE S

DeliverP2S ==
    /\ p2s # <<>>
    /\ p2s' = Tail(p2s)
    /\ ServerCommit(ServerReceive(ServerState, p2s[1]), Op(p2s[1].operation, p2s[1].sessid))
    /\ UNCHANGED <<now, amp_protocol, latest_sessid, CONNECTION_QUEUE, ptable,
                   connection_last, connection_task, connect_calls, queued_notice, pclosed, dropped, portal_op,
                   autoauth, assigned, admitted, dataVars, cleanVars, ioVars, menuVars>>

\* portalsessionhandler.py lines 227-237: server_logged_in(session, data)
server_logged_in(tab, sid, data) ==
    IF sid \in DOMAIN tab THEN [tab EXCEPT ![sid] = load_sync_data(@, data)] ELSE tab

\* portalsessionhandler.py lines 198-212: server_disconnect(session, reason)
server_disconnect(tab, sid) == IF sid \in DOMAIN tab THEN TableDel(tab, sid) ELSE tab

\* session.disconnect(reason): the transport's own hook, which removes the
\* session's entry from the table or leaves it there
SessionDisconnectHook(tab, sid, removes) ==
    IF removes /\ sid \in DOMAIN tab THEN TableDel(tab, sid) ELSE tab

\* server_disconnect(session, reason) called by the Server for a session held
PortalServerDisconnect(sid, removes) ==
    /\ sid \in DOMAIN ptable
    /\ ptable' = server_disconnect(SessionDisconnectHook(ptable, sid, removes), sid)
    /\ portal_op' = [op |-> "server_disconnect", err |-> FALSE, hooked |-> {sid}]
    /\ UNCHANGED <<now, amp_protocol, latest_sessid, CONNECTION_QUEUE, connection_last,
                   connection_task, connect_calls, p2s, queued_notice, pclosed, dropped,
                   autoauth, assigned, admitted, dataVars, serverVars, cleanVars, ioVars, menuVars>>

\* portalsessionhandler.py lines 214-225: server_disconnect_all(reason) calls
\* every session's hook; the closing "self = {}" rebinds the local name and
\* leaves the handler's entries alone, so the entries left are those whose
\* hook did not remove them
server_disconnect_all(tab, removed) == [k \in DOMAIN tab \ removed |-> tab[k]]

PortalServerDisconnectAll(removed) ==
    /\ ptable # <<>>
    /\ removed \subseteq DOMAIN ptable
    /\ ptable' = server_disconnect_all(ptable, removed)
    /\ portal_op' = [op |-> "server_disconnect_all", err |-> FALSE, hooked |-> DOMAIN ptable]
    /\ UNCHANGED <<now, amp_protocol, latest_sessid, CONNECTION_QUEUE, connection_last,
                   connection_task, connect_calls, p2s, queued_notice, pclosed, dropped,
                   autoauth, assigned, admitted, dataVars, serverVars, cleanVars, ioVars, menuVars>>

\* lines 254-257 without the test "if sessid in self": a session is made for
\* every sessid of serversessions that the Portal does not hold
SyncSave_Create(tab, serversessions) ==
    [k \in DOMAIN tab \cup DOMAIN serversessions |->
        IF k \in DOMAIN tab
        THEN IF k \in DOMAIN serversessions THEN load_sync_data(tab[k], serversessions[k])
             ELSE tab[k]
        ELSE load_sync_data([NewPortalSession(FALSE, NoUid) EXCEPT !.sessid = k],
                            serversessions[k])]

\* portalsessionhandler.py lines 254-257: the sessions in serversessions that
\* the Portal holds take over the data
SyncSave(tab, serversessions) ==
    [k \in DOMAIN tab |->
        IF k \in DOMAIN serversessions THEN load_sync_data(tab[k], serversessions[k])
        ELSE tab[k]]

\* lines 258-261: the sessids of the sessions held that serversessions lacks
SyncToDelete(tab, serversessions) == DOMAIN tab \ DOMAIN serversessions

\* lines 239-261: server_session_sync(serversessions, clean) as
\* [tab: the table afterwards, err: raised, hooked: sessions disconnected].
\* Line 261 hands server_disconnect the sessid, an int, where it takes a
\* session: a sessid is never 0, so "if session:" passes and
\* sessid.disconnect(reason) raises AttributeError at the first sessid of
\* to_delete, before any hook ran and before anything was removed
server_session_sync(tab, serversessions, clean) ==
    LET saved == SyncSave(tab, serversessions)
        to_delete == SyncToDelete(tab, serversessions)
    IN  IF clean /\ to_delete # {}
        THEN [tab |-> saved, err |-> TRUE, hooked |-> {}]
        ELSE [tab |-> saved, err |-> FALSE, hooked |-> {}]

\* the data the Server saves for the sessions keys: each logged in as player 1
ServerSessionsData(keys) == [k \in keys |-> [sessid |-> k, logged_in |-> TRUE, uid |-> 1]]

PortalServerSessionSync(keys, clean) ==
    /\ ptable # <<>>
    /\ LET r == server_session_sync(ptable, ServerSessionsData(keys), clean)
       IN  /\ ptable' = r.tab
           /\ portal_op' = [op |-> "server_session_sync", err |-> r.err, hooked |-> r.hooked,
                            keys |-> keys, clean |-> clean]
    /\ UNCHANGED <<now, amp_protocol, latest_sessid, CONNECTION_QUEUE, connection_last,
                   connection_task, connect_calls, p2s, queued_notice, pclosed, dropped,
                   autoauth, assigned, admitted, dataVars, serverVars, cleanVars, ioVars, menuVars>>

\* the Portal receives a Server message: SLOGIN runs server_logged_in,
\* SDISCONN runs server_disconnect, a data message goes out to the client
PortalReceive(tab, msg) ==
    IF msg.operation = SLOGIN THEN server_logged_in(tab, msg.sessid, msg.sessiondata)
    ELSE IF msg.operation = SDISCONN THEN server_disconnect(tab, msg.sessid)
    ELSE tab

DeliverS2P ==
    /\ s2p # <<>>
    /\ s2p' = Tail(s2p)
    /\ ptable' = PortalReceive(ptable, s2p[1])
    /\ UNCHANGED <<now, amp_protocol, latest_sessid, CONNECTION_QUEUE, connection_last,
                   connection_task, connect_calls, p2s, queued_notice, pclosed, dropped, portal_op, autoauth,
                   assigned, admitted, MULTISESSION_MODE, IDLE_TIMEOUT, stable,
                   is_connected, server_op, sdisconn_sent, login_done, loginstart,
                   dataVars, cleanVars, ioVars, menuVars>>

\* the Portal sends the Server its full snapshot, get_all_sync_data() of the
\* sessions it holds, as a PSYNC message
PortalSync ==
    /\ p2s' = Append(p2s, [operation |-> PSYNC, sessid |-> 0,
                           sessiondata |-> get_all_sync_data(ptable)])
    /\ UNCHANGED <<now, amp_protocol, latest_sessid, CONNECTION_QUEUE, ptable,
                   connection_last, connection_task, connect_calls, queued_notice, pclosed,
                   dropped, portal_op, autoauth, assigned, admitted, dataVars, serverVars,
                   cleanVars, ioVars, menuVars>>

\* ------------------------------------------------------------------------
\* Environment: the clock and the AMP link
\* ------------------------------------------------------------------------
\* a pending call runs at its due time, or at most MaxLate ticks after it
NoCallOverdue(calls) == \A i \in 1..Len(calls) : now < calls[i] + MaxLate

\* time() moves on by one tick, up to the limit of the specification
AdvanceTime(limit) ==
    /\ now < limit
    /\ NoCallOverdue(connect_calls)
    /\ NoCallOverdue(datain_calls)
    /\ now' = now + 1
    /\ UNCHANGED <<admitVars, dataVars, serverVars, cleanVars, ioVars, menuVars>>

\* the AMP connection to the Server comes up (at_server_connection) or is lost
AmpToggle ==
    /\ amp_protocol' = ~amp_protocol
    /\ UNCHANGED <<now, latest_sessid, CONNECTION_QUEUE, ptable, connection_last,
                   connection_task, connect_calls, p2s, queued_notice, pclosed, dropped, portal_op,
                   assigned, admitted, autoauth, dataVars, serverVars, cleanVars, ioVars, menuVars>>

\* no call is at hand
NoCall == [op |-> "none"]

\* the call at hand has not run
NoResult == [done |-> FALSE]

IoIdle ==
    /\ io_call = NoCall
    /\ io_result = NoResult

\* the default of a node without a "_default" option: self.default = None
NoDefault == [set |-> FALSE, goto |-> "None"]

\* no EvMenu was made yet
NoMenu ==
    [exists |-> FALSE, tree |-> <<>>, auto_quit |-> TRUE, node |-> "None", via |-> "none",
     options |-> <<>>, default |-> NoDefault]

\* the user before any menu: no menu cmdset, no ndb._menutree
NoCaller ==
    [cmdset |-> FALSE, ndb |-> FALSE, closes |-> 0, executed |-> 0, raised |-> "none",
     msg |-> "none"]

MenuIdle ==
    /\ menu = NoMenu
    /\ caller = NoCaller

\* no payload is being cleaned
CleanIdle ==
    /\ cs_kwargs = PyDict({})
    /\ cs_prev = PyDict({})
    /\ cs_n = 0
    /\ cs_server = FALSE
    /\ cs_encoding = "utf-8"

\* ServerSessionHandler.__init__ with an empty table
ServerInit ==
    /\ stable = <<>>
    /\ is_connected = [u \in Players |-> FALSE]
    /\ s2p = <<>>
    /\ server_op = NoOp
    /\ sdisconn_sent = <<>>
    /\ login_done = {}
    /\ loginstart = <<>>

\* a Server that takes no part
ServerIdle ==
    /\ MULTISESSION_MODE = 0
    /\ IDLE_TIMEOUT = 0
    /\ ServerInit

\* PortalSessionHandler.__init__, lines 54-56
DataInit ==
    /\ command_counter = 0
    /\ command_counter_reset = 0
    /\ command_overflow = FALSE
    /\ datain_calls = <<>>
    /\ data_result = "none"
    /\ arrivals = <<>>
    /\ raised_at = None

\* PortalSessionHandler.__init__, lines 47-53
PortalInit ==
    /\ latest_sessid = 0
    /\ CONNECTION_QUEUE = <<>>
    /\ ptable = <<>>
    /\ connection_last = 0
    /\ connection_task = None
    /\ connect_calls = <<>>
    /\ p2s = <<>>
    /\ queued_notice = <<>>
    /\ pclosed = {}
    /\ dropped = {}
    /\ portal_op = NoPortalOp
    /\ autoauth = {}
    /\ assigned = <<>>
    /\ admitted = <<>>

InitAdmit ==
    /\ now = 0
    /\ amp_protocol \in BOOLEAN
    /\ PortalInit
    /\ DataInit
    /\ ServerIdle
    /\ CleanIdle
    /\ IoIdle
    /\ MenuIdle

NextAdmit ==
    \/ latest_sessid < MaxSessions /\ PortalConnect(FALSE, NoUid)
    \/ ConnectTick
    \/ \E sid \in 1..MaxSessions : PortalDisconnect(sid)
    \/ AdvanceTime(MaxTime)
    \/ AmpToggle

SpecAdmit == InitAdmit /\ [][NextAdmit]_vars

\* ------------------------------------------------------------------------
\* Teardown on the Portal: admitted sessions are disconnected and
\* reconciled on the Server's request
\* ------------------------------------------------------------------------
NextTeardown ==
    \/ latest_sessid < MaxSessions /\ PortalConnect(FALSE, NoUid)
    \/ ConnectTick
    \/ \E sid \in 1..MaxSessions : \E removes \in BOOLEAN : PortalServerDisconnect(sid, removes)
    \/ \E removed \in SUBSET (1..MaxSessions) : PortalServerDisconnectAll(removed)
    \/ \E keys \in SUBSET (1..MaxSessions) : \E clean \in BOOLEAN :
          PortalServerSessionSync(keys, clean)
    \/ AdvanceTime(MaxTime)

SpecTeardown == InitAdmit /\ [][NextTeardown]_vars

\* ------------------------------------------------------------------------
\* The Server saves session data to the Portal: sessions are admitted and
\* server_session_sync is called with data for any set of sessids
\* ------------------------------------------------------------------------
NextSessionSync ==
    \/ latest_sessid < MaxServerSessions /\ PortalConnect(FALSE, NoUid)
    \/ ConnectTick
    \/ \E keys \in SUBSET (1..MaxSessions) : \E clean \in BOOLEAN :
          PortalServerSessionSync(keys, clean)
    \/ AdvanceTime(MaxSystemTime)

SpecSessionSync == InitAdmit /\ [][NextSessionSync]_vars

\* ------------------------------------------------------------------------
\* Inbound data on the Portal: one connection, made at time 0, sends commands
\* ------------------------------------------------------------------------
DataPayloads == {PyDict({KV("text", PyList(<<PyList(<<PyUni("hi")>>), PyDict({})>>))})}

InitData ==
    /\ now = 0
    /\ amp_protocol = TRUE
    /\ DataInit
    /\ ServerIdle
    /\ CleanIdle
    /\ IoIdle
    /\ MenuIdle
    \* the state connect(session) leaves at time 0
    /\ latest_sessid = 1
    /\ CONNECTION_QUEUE = <<[NewPortalSession(FALSE, NoUid) EXCEPT !.sessid = 1]>>
    /\ ptable = <<>>
    /\ connection_last = 0
    /\ connection_task = MIN_TIME_BETWEEN_CONNECTS
    /\ connect_calls = <<MIN_TIME_BETWEEN_CONNECTS>>
    /\ p2s = <<>>
    /\ queued_notice = <<>>
    /\ pclosed = {}
    /\ dropped = {}
    /\ portal_op = NoPortalOp
    /\ autoauth = {}
    /\ assigned = <<1>>
    /\ admitted = <<>>

NextData ==
    \/ \E sid \in 1..MaxSessions, kwargs \in DataPayloads : PortalDataIn(sid, kwargs)
    \/ PortalDataInTick
    \/ ConnectTick
    \/ LinkTransmit
    \/ AdvanceTime(MaxDataTime)

SpecData == InitData /\ [][NextData]_vars

\* ------------------------------------------------------------------------
\* The Server handler on its own: connections arrive, players log in,
\* sessions idle and are swept
\* ------------------------------------------------------------------------
\* what a connecting protocol says of its session: <<logged_in, uid>>
ConnectAuths == {<<FALSE, NoUid>>, <<TRUE, 1>>, <<TRUE, UnknownUid>>}

\* the settings tried: <<MULTISESSION_MODE, IDLE_TIMEOUT>>
ServerConfigs == {<<0, 0>>, <<1, -1>>, <<1, 1>>}

InitServer ==
    /\ now = 0
    /\ amp_protocol = TRUE
    /\ PortalInit
    /\ DataInit
    /\ CleanIdle
    /\ IoIdle
    /\ MenuIdle
    /\ \E cfg \in ServerConfigs : MULTISESSION_MODE = cfg[1] /\ IDLE_TIMEOUT = cfg[2]
    /\ ServerInit

\* PCONN messages carry increasing sessids: the id of the next connection
NextServerSid == Cardinality(DOMAIN stable \cup DOMAIN sdisconn_sent) + 1

\* the Server takes its next event once the link has carried its messages away
NextServer ==
    \/ \E auth \in ConnectAuths :
          /\ s2p = <<>>
          /\ NextServerSid <= MaxServerSessions
          /\ ServerPortalConnect(ConnectPayload(NextServerSid, auth[1], auth[2]))
    \/ \E sid \in 1..MaxServerSessions, player \in Players, force \in BOOLEAN :
          s2p = <<>> /\ ServerLogin(sid, player, force, FALSE)
    \/ \E sid \in 1..MaxServerSessions : s2p = <<>> /\ ServerDisconnect(sid)
    \/ s2p = <<>> /\ ServerValidateSessions
    \/ ServerResyncRoundTrip
    \/ LinkTransmitS2P
    \/ AdvanceTime(MaxServerTime)

SpecServer == InitServer /\ [][NextServer]_vars

\* ------------------------------------------------------------------------
\* The Server with the Portal's sync messages: sessions connect, log in and
\* disconnect, and the Portal syncs one session or all of them
\* ------------------------------------------------------------------------
NextServerSync ==
    \/ \E auth \in ConnectAuths :
          /\ s2p = <<>>
          /\ NextServerSid <= MaxSessions
          /\ ServerPortalConnect(ConnectPayload(NextServerSid, auth[1], auth[2]))
    \/ \E sid \in 1..MaxSessions, player \in Players :
          s2p = <<>> /\ ServerLogin(sid, player, FALSE, FALSE)
    \/ \E sid \in 1..MaxSessions : s2p = <<>> /\ ServerDisconnect(sid)
    \/ \E sid \in 1..MaxSessions :
          s2p = <<>> /\ ServerPortalSessionSync(SyncPayload(sid))
    \/ \E keys \in SUBSET (1..MaxSessions) :
          s2p = <<>> /\ ServerPortalSessionsSync(keys)
    \/ LinkTransmitS2P

SpecServerSync == InitServer /\ [][NextServerSync]_vars

\* ------------------------------------------------------------------------
\* The Server with duplicate sessions: sessions connect and log in, and the
\* duplicates of a session are disconnected on request
\* ------------------------------------------------------------------------
NextDuplicates ==
    \/ \E auth \in ConnectAuths :
          /\ s2p = <<>>
          /\ NextServerSid <= MaxSessions
          /\ ServerPortalConnect(ConnectPayload(NextServerSid, auth[1], auth[2]))
    \/ \E sid \in 1..MaxSessions, player \in Players :
          s2p = <<>> /\ ServerLogin(sid, player, FALSE, FALSE)
    \/ \E cur \in 1..MaxSessions : s2p = <<>> /\ ServerDisconnectDuplicates(cur)
    \/ LinkTransmitS2P

SpecDuplicates == InitServer /\ [][NextDuplicates]_vars

\* ------------------------------------------------------------------------
\* The two processes together: connections are admitted by the Portal,
\* announced to the Server, logged in and disconnected there, and the
\* Server's notices come back over the link
\* ------------------------------------------------------------------------
InitSystem ==
    /\ now = 0
    /\ amp_protocol = TRUE
    /\ PortalInit
    /\ DataInit
    /\ CleanIdle
    /\ IoIdle
    /\ MenuIdle
    /\ ServerIdle

NextSystem ==
    \/ \E auth \in ConnectAuths :
          latest_sessid < MaxServerSessions /\ PortalConnect(auth[1], auth[2])
    \/ ConnectTick
    \/ \E sid \in 1..MaxServerSessions : PortalDisconnect(sid)
    \/ DeliverP2S
    \/ \E sid \in DOMAIN stable :
          Len(s2p) < MaxInFlight /\ ServerLogin(sid, 1, FALSE, FALSE)
    \/ DeliverS2P
    \/ AdvanceTime(MaxSystemTime)

SpecSystem == InitSystem /\ [][NextSystem]_vars

\* ------------------------------------------------------------------------
\* The two processes with a full resync: the Portal may send its snapshot
\* while other messages are in flight, one snapshot at a time; the Server
\* takes its next message once the link has room for its answers
\* ------------------------------------------------------------------------
SnapshotInFlight == \E i \in 1..Len(p2s) : p2s[i].operation = PSYNC

NextResync ==
    \/ latest_sessid < MaxServerSessions /\ PortalConnect(FALSE, NoUid)
    \/ ConnectTick
    \/ \E sid \in 1..MaxServerSessions : PortalDisconnect(sid)
    \/ ~SnapshotInFlight /\ ptable # <<>> /\ PortalSync
    \/ Len(s2p) < MaxInFlight /\ DeliverP2S
    \/ \E sid \in DOMAIN stable :
          Len(s2p) < MaxInFlight /\ ServerLogin(sid, 1, FALSE, FALSE)
    \/ DeliverS2P
    \/ AdvanceTime(MaxSystemTime)

SpecResync == InitSystem /\ [][NextResync]_vars

\* ------------------------------------------------------------------------
\* The two processes with the Server's own removals: besides the PDISCONN of
\* the Portal the Server disconnects a session itself, sweeps idle sessions
\* and evicts the older sessions of a player at login; the Server acts once
\* the link has carried its notices away
\* ------------------------------------------------------------------------
InitRemoval ==
    /\ now = 0
    /\ amp_protocol = TRUE
    /\ PortalInit
    /\ DataInit
    /\ CleanIdle
    /\ IoIdle
    /\ MenuIdle
    /\ \E cfg \in ServerConfigs : MULTISESSION_MODE = cfg[1] /\ IDLE_TIMEOUT = cfg[2]
    /\ ServerInit

NextRemoval ==
    \/ latest_sessid < MaxServerSessions /\ PortalConnect(FALSE, NoUid)
    \/ ConnectTick
    \/ \E sid \in 1..MaxServerSessions : PortalDisconnect(sid)
    \/ s2p = <<>> /\ DeliverP2S
    \/ \E sid \in DOMAIN stable : s2p = <<>> /\ ServerLogin(sid, 1, FALSE, FALSE)
    \/ \E sid \in DOMAIN stable : s2p = <<>> /\ ServerDisconnect(sid)
    \/ s2p = <<>> /\ ServerValidateSessions
    \/ DeliverS2P
    \/ AdvanceTime(MaxSystemTime)

SpecRemoval == InitRemoval /\ [][NextRemoval]_vars

\* ------------------------------------------------------------------------
\* The two processes with late syncs: a protocol may call sync(session) for
\* any of its sessions, one PCONNSYNC on the link at a time
\* ------------------------------------------------------------------------
LateSyncInFlight == \E i \in 1..Len(p2s) : p2s[i].operation = PCONNSYNC

NextLateSync ==
    \/ latest_sessid < MaxServerSessions /\ PortalConnect(FALSE, NoUid)
    \/ ConnectTick
    \/ \E session \in SyncCandidates : ~LateSyncInFlight /\ PortalSessionSync(session)
    \/ Len(s2p) < MaxInFlight /\ DeliverP2S
    \/ \E sid \in DOMAIN stable :
          Len(s2p) < MaxInFlight /\ ServerLogin(sid, 1, FALSE, FALSE)
    \/ DeliverS2P
    \/ AdvanceTime(MaxSystemTime)
    \/ AmpToggle

SpecLateSync == InitSystem /\ [][NextLateSync]_vars

\* ------------------------------------------------------------------------
\* clean_senddata applied to the payloads a caller may pass
\* ------------------------------------------------------------------------

CleanAtoms ==
    {PyNone, PyStr(""), PyStr("hi"), PyUni("hi"), PyStr("$f()"), PyNum("0"), PyNum("1"),
     PyObj("Griatch"), PyOther("err")}

CleanDicts == {PyDict({}), PyDict({KV("n", PyNum("1"))}), PyDict({KV("who", PyObj("Griatch"))})}

CleanLists ==
    {PyList(<<>>), PyList(<<PyStr("hi")>>), PyTuple(<<PyUni("hi"), PyNum("1")>>),
     PyList(<<PyObj("Griatch"), PyList(<<PyStr("$f()")>>)>>)}

\* the values of one instruction: bare values and the documented shorthands
CleanValues ==
    CleanAtoms \cup CleanDicts \cup CleanLists
      \cup {PyList(<<x, k>>) : x \in {PyStr("hi"), PyNum("0"), PyObj("Griatch")}, k \in CleanDicts}
      \cup {PyList(<<l, k>>) : l \in CleanLists, k \in CleanDicts}
      \cup {PyList(<<PyStr("hi"), PyNum("1"), k>>) : k \in CleanDicts}
      \cup {PyList(<<k, PyDict({})>>) : k \in CleanDicts}

CleanOptionValues ==
    {PyNone, PyDict({}), PyDict({KV("raw", PyBool("True"))}),
     PyDict({KV("strip_inlinefunc", PyBool("True"))}),
     PyDict({KV("from_obj", PyObj("Griatch"))})}

CleanInputs ==
    {PyDict({KV("text", v)}) : v \in CleanValues}
      \cup {PyDict({KV("text", v), KV("options", o)}) : v \in CleanValues, o \in CleanOptionValues}

InitClean ==
    /\ now = 0
    /\ amp_protocol = TRUE
    /\ PortalInit
    /\ DataInit
    /\ ServerIdle
    /\ cs_kwargs \in CleanInputs
    /\ cs_prev = PyDict({})
    /\ cs_n = 0
    /\ cs_server \in BOOLEAN
    /\ cs_encoding \in {"utf-8", "bogus"}
    /\ IoIdle
    /\ MenuIdle

\* one call of clean_senddata(session, kwargs) on the payload at hand
CleanSendData ==
    /\ cs_n < MaxCleans
    /\ cs_n' = cs_n + 1
    /\ cs_prev' = cs_kwargs
    /\ cs_kwargs' = clean_senddata(cs_kwargs, cs_server, INLINEFUNC_ENABLED)
    /\ cs_encoding' = CleanEncoding(cs_encoding, cs_kwargs)
    /\ UNCHANGED <<now, admitVars, dataVars, serverVars, cs_server, ioVars, menuVars>>

NextClean == CleanSendData

SpecClean == InitClean /\ [][NextClean]_vars

\* ------------------------------------------------------------------------
\* ServerSessionHandler.data_in: the instructions of an inbound payload are
\* handed to the input functions
\* ------------------------------------------------------------------------
\* inputfuncs.py: the global callables whose name does not start with "_"
INPUT_FUNCS ==
    {"text", "echo", "default", "browser_sessid", "client_options", "hello",
     "supports_set", "get_client_options", "get_inputfuncs", "login", "get_value",
     "repeat", "unrepeat", "monitor", "unmonitor"}

\* the instruction names a client sends
InputNames == {"text", " Echo ", "Look", "default"}

\* line 676: cmdname.strip().lower()
CName(cmdname) ==
    CASE cmdname = " Echo " -> "echo"
      [] cmdname = "Look" -> "look"
      [] OTHER -> cmdname

\* An instruction of the payload: its name; the shape of its value ("pair" is
\* [cmdargs, cmdkwargs], "short" a value that is no sequence of two elements,
\* "badkwargs" a pair whose second element is no dict); the arguments; and
\* whether the input function fails on them
InputInstructions ==
    [cmdname : InputNames, shape : {"pair"}, cmdargs : {<<>>, <<"hi">>}, raises : BOOLEAN]
      \cup [cmdname : InputNames, shape : {"short", "badkwargs"}, cmdargs : {<<>>},
            raises : {FALSE}]

\* kwargs.iteritems() of payloads of up to MaxInstr instructions, in the
\* order the dict yields them
InputPayloads ==
    {<<i>> : i \in InputInstructions}
      \cup (IF MaxInstr >= 2
            THEN {p \in InputInstructions \X InputInstructions :
                     p[1].cmdname # p[2].cmdname}
            ELSE {})
      \cup (IF MaxInstr >= 3
            THEN {p \in InputInstructions \X InputInstructions \X InputInstructions :
                     Cardinality({p[1].cmdname, p[2].cmdname, p[3].cmdname}) = 3}
            ELSE {})

\* line 675: the for statement unpacks every value as (cmdargs, cmdkwargs)
UnpacksAsPair(instr) == instr.shape # "short"

\* lines 679-682: the input function called for cname, default for every name
InputFuncFor_Default(cname) == "default"

\* lines 679-682: the input function called for cname
InputFuncFor(cname) == IF cname \in INPUT_FUNCS THEN cname ELSE "default"

\* lines 680 and 682: the positional arguments after the session
InputFuncArgs(cname, cmdargs) ==
    IF cname \in INPUT_FUNCS THEN cmdargs ELSE <<cname>> \o cmdargs

\* the call fails: the input function raises, or default(session, cmdname,
\* *args) is called without a cmdname
InputCallRaises(instr) ==
    \/ instr.raises
    \/ InputFuncFor(CName(instr.cmdname)) = "default"
          /\ InputFuncArgs(CName(instr.cmdname), instr.cmdargs) = <<>>

\* lines 683-686: the except clause
InputExcept(R, debug) ==
    [R EXCEPT !.logged = @ + 1, !.echoed = IF debug THEN @ + 1 ELSE @]

\* lines 676-686: the body of the loop for one instruction
DataInOne(R, instr, debug) ==
    IF instr.shape = "badkwargs"
    THEN InputExcept(R, debug)
    ELSE LET called == [R EXCEPT !.calls =
                           Append(@, [of |-> instr.cmdname,
                                      func |-> InputFuncFor(CName(instr.cmdname)),
                                      args |-> InputFuncArgs(CName(instr.cmdname),
                                                             instr.cmdargs)])]
         IN  IF InputCallRaises(instr) THEN InputExcept(called, debug) ELSE called

RECURSIVE DataInLoop(_, _, _)
\* lines 675-686: the loop; a value that does not unpack raises in the for
\* statement, outside the try
DataInLoop(R, payload, debug) ==
    IF payload = <<>> THEN R
    ELSE IF ~UnpacksAsPair(Head(payload)) THEN [R EXCEPT !.escaped = TRUE]
    ELSE DataInLoop(DataInOne(R, Head(payload), debug), Tail(payload), debug)

\* lines 659-686: data_in(session, **kwargs) as what it did: the input
\* functions called, the errors logged and echoed, and whether it raised
srv_data_in(session, debug, payload) ==
    LET R0 == [done |-> TRUE, calls |-> <<>>, logged |-> 0, echoed |-> 0, escaped |-> FALSE]
    IN  IF session THEN DataInLoop(R0, payload, debug) ELSE R0

\* the calls of data_in tried: with a session or None, INPUTDEBUG on or off
DataInCalls ==
    [op : {"data_in"}, session : BOOLEAN, debug : BOOLEAN, payload : InputPayloads]

ServerDataIn ==
    /\ io_call.op = "data_in"
    /\ ~io_result.done
    /\ io_result' = srv_data_in(io_call.session, io_call.debug, io_call.payload)
    /\ UNCHANGED <<now, admitVars, dataVars, serverVars, cleanVars, io_call, menuVars>>

InitInput ==
    /\ now = 0
    /\ amp_protocol = TRUE
    /\ PortalInit
    /\ DataInit
    /\ ServerIdle
    /\ CleanIdle
    /\ io_call \in DataInCalls
    /\ io_result = NoResult
    /\ MenuIdle

NextInput == ServerDataIn

SpecInput == InitInput /\ [][NextInput]_vars

\* ------------------------------------------------------------------------
\* The text input function (inputfuncs.py): a line of text from the client
\* ------------------------------------------------------------------------
\* the values of settings.IDLE_COMMAND tried
IdleSettings == {"idle", "afk"}

\* inputfuncs.py lines 34-35: _IDLE_COMMAND, a tuple of one or two strings
IDLE_COMMAND(setting) ==
    IF setting = "idle" THEN PyTuple(<<PyStr("idle")>>)
    ELSE PyTuple(<<PyStr(setting), PyStr("idle")>>)

\* the positional arguments tried: none, idle commands bare and padded,
\* commands, the empty string, and a second argument
TextArgs ==
    {<<>>, <<"idle">>, <<" idle ">>, <<"afk">>, <<"look">>, <<"l">>, <<"">>,
     <<"idle", "more">>}

\* text.strip() on the texts tried
Strip(line) == IF line = " idle " THEN "idle" ELSE line

\* nicks.nickreplace(text, ...) for a player with the nick l = look
NickReplace(line) == IF line = "l" THEN "look" ELSE line

\* line 66: text.strip() == _IDLE_COMMAND, a string compared with a tuple
IsIdleCommand(line, setting) == PyStr(Strip(line)) = IDLE_COMMAND(setting)

\* lines 45-80, text(session, *args, **kwargs), as what it did: the session
\* counters updated (idle or active), the text and the keywords given to the
\* command handler
inputfunc_text(call) ==
    LET R0 == [done |-> TRUE, counters |-> "none", cmd |-> PyNone, kwargs |-> {}]
    IN  IF call.args = <<>>
        THEN R0
        ELSE IF IsIdleCommand(call.args[1], call.setting)
        THEN [R0 EXCEPT !.counters = "idle"]
        ELSE [R0 EXCEPT !.counters = "active",
                        !.cmd = PyStr(IF call.player THEN NickReplace(call.args[1])
                                      ELSE call.args[1]),
                        !.kwargs = call.kwargs \ {"options"}]

\* the calls of text tried: with and without a player on the session
TextCalls ==
    [op : {"text"}, setting : IdleSettings, args : TextArgs, player : BOOLEAN,
     kwargs : SUBSET {"options", "raw"}]

ServerText ==
    /\ io_call.op = "text"
    /\ ~io_result.done
    /\ io_result' = inputfunc_text(io_call)
    /\ UNCHANGED <<now, admitVars, dataVars, serverVars, cleanVars, io_call, menuVars>>

InitText ==
    /\ now = 0
    /\ amp_protocol = TRUE
    /\ PortalInit
    /\ DataInit
    /\ ServerIdle
    /\ CleanIdle
    /\ io_call \in TextCalls
    /\ io_result = NoResult
    /\ MenuIdle

NextText == ServerText

SpecText == InitText /\ [][NextText]_vars

\* ------------------------------------------------------------------------
\* PortalSessionHandler.data_out: the instructions of an outbound payload are
\* handed to the send routines of the session's protocol
\* ------------------------------------------------------------------------
\* the names x for which the session has a routine send_x
SESSION_SENDS == {"text", "prompt", "default"}

\* lines 374-375: the send routine for an instruction, named by its x
OutFuncFor(cmdname) ==
    IF CName(cmdname) \in SESSION_SENDS THEN CName(cmdname) ELSE "default"

\* lines 379 and 385: the positional arguments; send_default takes the
\* cmdname as it came
OutFuncArgs(cmdname, cmdargs) ==
    IF CName(cmdname) \in SESSION_SENDS THEN cmdargs ELSE <<cmdname>> \o cmdargs

\* the send fails: the routine raises, cmdkwargs is no dict, or
\* send_default(cmdname, *args) is called without a cmdname
OutCallRaises(instr) ==
    \/ instr.raises
    \/ instr.shape = "badkwargs"
    \/ OutFuncFor(instr.cmdname) = "default" /\ OutFuncArgs(instr.cmdname, instr.cmdargs) = <<>>

\* lines 380-381 and 386-387: the except clauses, letting the exception pass
OutExcept_Raise(R) == [R EXCEPT !.escaped = TRUE]

\* lines 380-381 and 386-387: the except clauses
OutExcept(R) == [R EXCEPT !.logged = @ + 1]

\* lines 373-387: the body of the loop for one instruction
DataOutOne(R, instr) ==
    LET sent == [R EXCEPT !.calls =
                    Append(@, [of |-> instr.cmdname, func |-> OutFuncFor(instr.cmdname),
                               args |-> OutFuncArgs(instr.cmdname, instr.cmdargs)])]
    IN  IF OutCallRaises(instr) THEN OutExcept(sent) ELSE sent

RECURSIVE DataOutLoop(_, _)
\* lines 372-387: the loop; it ends when an exception leaves it, as a value
\* that does not unpack raises in the for statement
DataOutLoop(R, payload) ==
    IF payload = <<>> \/ R.escaped THEN R
    ELSE IF ~UnpacksAsPair(Head(payload)) THEN [R EXCEPT !.escaped = TRUE]
    ELSE DataOutLoop(DataOutOne(R, Head(payload)), Tail(payload))

\* lines 352-387: data_out(session, **kwargs) as what it did: the send
\* routines called, the errors logged, and whether it raised
portal_data_out(session, payload) ==
    LET R0 == [done |-> TRUE, calls |-> <<>>, logged |-> 0, escaped |-> FALSE]
    IN  IF session THEN DataOutLoop(R0, payload) ELSE R0

\* the calls of data_out tried: with a session or None
DataOutCalls == [op : {"data_out"}, session : BOOLEAN, payload : InputPayloads]

PortalDataOut ==
    /\ io_call.op = "data_out"
    /\ ~io_result.done
    /\ io_result' = portal_data_out(io_call.session, io_call.payload)
    /\ UNCHANGED <<now, admitVars, dataVars, serverVars, cleanVars, io_call, menuVars>>

InitOutput ==
    /\ now = 0
    /\ amp_protocol = TRUE
    /\ PortalInit
    /\ DataInit
    /\ ServerIdle
    /\ CleanIdle
    /\ io_call \in DataOutCalls
    /\ io_result = NoResult
    /\ MenuIdle

NextOutput == PortalDataOut

SpecOutput == InitOutput /\ [][NextOutput]_vars

\* ------------------------------------------------------------------------
\* PortalSessionHandler.server_connect: the Server asks for a protocol
\* instance by the python path of its factory class
\* ------------------------------------------------------------------------
\* protocol_path as its parts between the dots; the path "" has the one part ""
ProtocolPaths ==
    {<<"evennia", "irc", "IRCClientFactory">>, <<"evennia", "irc", "NoSuchFactory">>,
     <<"nomodule", "IRCClientFactory">>, <<"IRCClientFactory">>, <<"">>}

\* the modules that can be imported and the classes they hold
FactoryModules == {<<"evennia", "irc">>}
FactoryClasses == {"IRCClientFactory"}

\* line 190: protocol_path.rsplit(".", 1): the text before the last dot and
\* the text after it, or the whole text alone when it has no dot
RSplitLast(parts) ==
    IF Len(parts) >= 2 THEN <<SubSeq(parts, 1, Len(parts) - 1), parts[Len(parts)]>>
    ELSE <<parts[1]>>

\* variable_from_module(path, clsname): the class, or None
MOD_IMPORT(path, clsname) ==
    IF path \in FactoryModules /\ clsname \in FactoryClasses THEN clsname ELSE "None"

\* lines 187-196: server_connect(protocol_path, config) as the exception it
\* raised and whether a protocol was made and started; unpacking the result
\* of rsplit into path, clsname raises ValueError when it has one element
server_connect(protocol_path) ==
    LET split == RSplitLast(protocol_path)
    IN  IF Len(split) # 2
        THEN [done |-> TRUE, raised |-> "ValueError", started |-> FALSE]
        ELSE IF MOD_IMPORT(split[1], split[2]) = "None"
        THEN [done |-> TRUE, raised |-> "RuntimeError", started |-> FALSE]
        ELSE [done |-> TRUE, raised |-> "none", started |-> TRUE]

PortalServerConnect(protocol_path) ==
    /\ io_call' = [op |-> "server_connect", protocol_path |-> protocol_path]
    /\ io_result' = server_connect(protocol_path)
    /\ UNCHANGED <<now, admitVars, dataVars, serverVars, cleanVars, menuVars>>

\* protocols connect as usual while the Server asks for further ones
NextBot ==
    \/ latest_sessid < MaxSessions /\ PortalConnect(FALSE, NoUid)
    \/ ConnectTick
    \/ \E protocol_path \in ProtocolPaths : PortalServerConnect(protocol_path)
    \/ AdvanceTime(MaxTime)

SpecBot == InitAdmit /\ [][NextBot]_vars

\* ------------------------------------------------------------------------
\* Admission without an end of time: connections keep arriving while the
\* link is up. connect() reads the clock only in the difference
\* now - connection_last and in the delay of callLater, so the clock is kept
\* relative: when a tick of time passes, the recorded times move back by one
\* instead of now moving on.
\* ------------------------------------------------------------------------
\* the value now keeps: late enough for every recorded time to stay positive
LiveNow == MIN_TIME_BETWEEN_CONNECTS + MaxLate

\* a tick of time passes: connection_last and the due times of the scheduled
\* calls lie one tick further back; a connection_last older than the minimum
\* interval is kept at that age, the gate of line 95 reading it the same
TimePasses ==
    /\ NoCallOverdue(connect_calls)
    /\ connection_last' = IF connection_last > now - MIN_TIME_BETWEEN_CONNECTS
                           THEN connection_last - 1 ELSE connection_last
    /\ connect_calls' = [i \in 1..Len(connect_calls) |-> connect_calls[i] - 1]
    /\ connection_task' = IF connection_task = None THEN None ELSE connection_task - 1
    /\ UNCHANGED <<now, amp_protocol, latest_sessid, CONNECTION_QUEUE, ptable, p2s,
                   queued_notice, pclosed, dropped, portal_op, assigned, admitted, autoauth,
                   dataVars, serverVars, cleanVars, ioVars, menuVars>>

\* connect(session) of a client that hangs up at once: the call defers
\* (lines 84-99) and disconnect(session) takes the session off the queue
\* again (lines 158-162). The sessid it used up is not recorded here.
PortalConnectLeave ==
    /\ ConnectTooSoon
    /\ ConnectBody(TRUE, CONNECTION_QUEUE, connect_calls)
    /\ UNCHANGED <<now, amp_protocol, latest_sessid, queued_notice, pclosed, dropped,
                   portal_op, assigned, autoauth,
                   dataVars, serverVars, cleanVars, ioVars, menuVars>>

InitLive ==
    /\ now = LiveNow
    /\ amp_protocol = TRUE
    /\ PortalInit
    /\ DataInit
    /\ ServerIdle
    /\ CleanIdle
    /\ IoIdle
    /\ MenuIdle

NextLive ==
    \/ \E auth \in ConnectAuths :
          latest_sessid < MaxSessions /\ PortalConnect(auth[1], auth[2])
    \/ PortalConnectLeave
    \/ ConnectTick
    \/ TimePasses

\* the scheduled tick fires when it is due and time passes
SpecLive ==
    InitLive /\ [][NextLive]_vars /\ WF_vars(ConnectTick) /\ WF_vars(TimePasses)

\* as SpecLive, with the sessions that stay as the only arrivals
NextLiveQuiet ==
    \/ \E auth \in ConnectAuths :
          latest_sessid < MaxSessions /\ PortalConnect(auth[1], auth[2])
    \/ ConnectTick
    \/ TimePasses

SpecLiveQuiet ==
    InitLive /\ [][NextLiveQuiet]_vars /\ WF_vars(ConnectTick) /\ WF_vars(TimePasses)

\* ------------------------------------------------------------------------
\* EvMenu: a menu of nodes on a caller (utils/evmenu.py)
\* ------------------------------------------------------------------------
\* the node functions of the menu trees tried
MenuNodes == {"start", "next"}

\* a node returning options = None
NoOptions == [none |-> TRUE, list |-> <<>>]

\* a node returning a tuple of option dicts
OptionList(list) == [none |-> FALSE, list |-> list]

\* an option dict {"key": key, "goto": goto}; "None" is a missing goto
MenuOption(key, goto) == [key |-> key, goto |-> goto]

\* what a node may return as its options: None, (), one option leading on,
\* back or to a node that is not in the tree, an option without goto, a
\* default option, and an option followed by a default
NodeOptions ==
    {NoOptions, OptionList(<<>>),
     OptionList(<<MenuOption("go", "next")>>),
     OptionList(<<MenuOption("go", "start")>>),
     OptionList(<<MenuOption("go", "missing")>>),
     OptionList(<<MenuOption("go", "None")>>),
     OptionList(<<MenuOption("_default", "next")>>),
     OptionList(<<MenuOption("go", "next"), MenuOption("_default", "None")>>)}

\* the dictionary menu trees {"nodekey": callable}
MenuTrees == [MenuNodes -> NodeOptions]

\* the text the user enters at a node
MenuInputs == {" Go ", "1", "look", "help", "quit", "zzz"}

\* line 362: raw_string.strip().lower()
MenuCmd(raw_string) == IF raw_string = " Go " THEN "go" ELSE raw_string

\* line 742: str(inum+1)
InumStr(i) == IF i = 1 THEN "1" ELSE "2"

\* "if options:" of lines 732 and 757: neither None nor empty
HasOptions(options) == ~options.none /\ options.list # <<>>

\* lines 735-742: the keys an option is looked up by
OptionKeys(list, i) ==
    IF list[i].key = "_default" THEN {} ELSE {list[i].key, InumStr(i)}

\* lines 732-750: self.options, from the options with a goto or exec
GotoOptions(options) ==
    LET list == options.list
        withGoto == {i \in 1..Len(list) : list[i].goto # "None"}
        keys == UNION {OptionKeys(list, i) : i \in withGoto}
        last(k) == CHOOSE i \in withGoto :
                      /\ k \in OptionKeys(list, i)
                      /\ \A j \in withGoto : k \in OptionKeys(list, j) => j <= i
    IN  [k \in keys |-> list[last(k)].goto]

\* lines 731-740: self.default, the (goto, exec) of the last "_default" option
GotoDefault(options) ==
    LET list == options.list
        defaults == {i \in 1..Len(list) : list[i].key = "_default"}
    IN  IF defaults = {} THEN NoDefault
        ELSE [set |-> TRUE,
              goto |-> list[CHOOSE i \in defaults : \A j \in defaults : j <= i].goto]

\* lines 697-762, goto(nodename, raw_string) on the pair X of menu and
\* caller: a node that is not in the tree leaves the menu as it is
\* (EvMenuError, lines 708-712), else the node's options and default are
\* stored and its text is shown. The menu is not closed here.
goto(X, nodename, via) ==
    IF nodename \notin DOMAIN X.m.tree
    THEN [X EXCEPT !.c.msg = "not implemented"]
    ELSE [m |-> [X.m EXCEPT !.node = nodename, !.via = via,
                            !.options = GotoOptions(X.m.tree[nodename]),
                            !.default = GotoDefault(X.m.tree[nodename])],
          c |-> [X.c EXCEPT !.msg = "nodetext"]]

\* lines 764-774, close_menu(). delRaises: whether deleting an ndb attribute
\* that is not there raises
close_menu(X, delRaises) ==
    LET entered == [X EXCEPT !.c.cmdset = FALSE, !.c.closes = @ + 1]
    IN  IF ~X.c.ndb /\ delRaises
        THEN [entered EXCEPT !.c.raised = "AttributeError"]
        ELSE [entered EXCEPT !.c.ndb = FALSE, !.c.executed = @ + 1]

\* lines 659-663, callback_goto(callback, goto, raw_string) without callback
callback_goto(X, nodename) ==
    IF nodename # "None" THEN goto(X, nodename, "input") ELSE X

\* lines 351-383, evtable_parse_input(menuobject, raw_string, caller), with
\* auto_look and auto_help left at their default True
evtable_parse_input(X, raw_string, delRaises) ==
    LET cmd == MenuCmd(raw_string)
        X1 == IF cmd \in DOMAIN X.m.options
              THEN callback_goto(X, X.m.options[cmd])
              ELSE IF cmd \in {"look", "l"}
              THEN [X EXCEPT !.c.msg = "nodetext"]
              ELSE IF cmd \in {"help", "h"}
              THEN [X EXCEPT !.c.msg = "helptext"]
              ELSE IF X.m.auto_quit /\ cmd \in {"quit", "q", "exit"}
              THEN close_menu(X, delRaises)
              ELSE IF X.m.default.set
              THEN callback_goto(X, X.m.default.goto)
              ELSE [X EXCEPT !.c.msg = "no match"]
    IN  IF DOMAIN X1.m.options = {} /\ ~X1.m.default.set
        THEN close_menu(X1, delRaises)
        ELSE X1

\* lines 215-237, CmdEvMenuNode.func(): the menu command gets the input
MenuFunc(X, raw_string, delRaises) ==
    IF ~X.c.ndb
    THEN [X EXCEPT !.c.msg = "menu not found", !.c.raised = "EvMenuError"]
    ELSE evtable_parse_input([X EXCEPT !.c.raised = "none"], raw_string, delRaises)

\* lines 397-558, EvMenu(caller, menudata, startnode, auto_quit=auto_quit),
\* not persistent, cmd_on_exit left at its default "look"
EvMenu(X, menudata, startnode, auto_quit) ==
    IF startnode \notin DOMAIN menudata
    THEN [X EXCEPT !.c.raised = "EvMenuError"]
    ELSE goto([m |-> [exists |-> TRUE, tree |-> menudata, auto_quit |-> auto_quit,
                      node |-> "None", via |-> "none", options |-> <<>>,
                      default |-> NoDefault],
               c |-> [cmdset |-> TRUE, ndb |-> TRUE, closes |-> 0, executed |-> 0,
                      raised |-> "none", msg |-> "none"]],
              startnode, "start")

MenuState == [m |-> menu, c |-> caller]

MenuCommit(X) ==
    /\ menu' = X.m
    /\ caller' = X.c
    /\ UNCHANGED <<now, admitVars, dataVars, serverVars, cleanVars, ioVars>>

\* a menu is started on the caller
EvMenuInit(menudata, startnode, auto_quit) ==
    MenuCommit(EvMenu(MenuState, menudata, startnode, auto_quit))

\* the caller enters a line while the menu cmdset is on them
MenuInput(raw_string, delRaises) ==
    /\ caller.cmdset
    /\ MenuCommit(MenuFunc(MenuState, raw_string, delRaises))

InitMenu ==
    /\ now = 0
    /\ amp_protocol = TRUE
    /\ PortalInit
    /\ DataInit
    /\ ServerIdle
    /\ CleanIdle
    /\ IoIdle
    /\ MenuIdle

\* menus are started one after the other, each when the one before is closed
NextMenu ==
    \/ \E menudata \in MenuTrees, startnode \in {"start", "missing"}, auto_quit \in BOOLEAN :
          ~caller.cmdset /\ EvMenuInit(menudata, startnode, auto_quit)
    \/ \E raw_string \in MenuInputs, delRaises \in BOOLEAN :
          MenuInput(raw_string, delRaises)

SpecMenu == InitMenu /\ [][NextMenu]_vars

\* ------------------------------------------------------------------------
\* Properties of connection admission
\* ------------------------------------------------------------------------
AdmittedSessids == {admitted[i][1] : i \in 1..Len(admitted)}

\* C1: every connect(session) hands out a sessid one above the previous one,
\* so the sessids handed out are strictly increasing and never repeat, also
\* after sessions were disconnected or dropped from the queue.
C1_SessidUnique ==
    /\ latest_sessid >= Len(assigned)
    /\ \A i \in 1..Len(assigned) : assigned[i] <= latest_sessid
    /\ \A i \in 1..(Len(assigned) - 1) : assigned[i + 1] = assigned[i] + 1
    /\ \A i, j \in 1..Len(assigned) : i < j => assigned[i] < assigned[j]
    /\ \A i, j \in 1..Len(CONNECTION_QUEUE) :
          i # j => CONNECTION_QUEUE[i].sessid # CONNECTION_QUEUE[j].sessid

\* a session connected after an earlier one was dropped from the queue
C1_Witness ==
    \E c \in pclosed :
        /\ c \notin AdmittedSessids
        /\ c \notin QueueSessids
        /\ \E i \in 1..Len(CONNECTION_QUEUE) : CONNECTION_QUEUE[i].sessid > c
        /\ DOMAIN ptable # {}

\* C2: two admissions are at least MIN_TIME_BETWEEN_CONNECTS apart (so one
\* connect() call admits at most one session), and n admissions span at least
\* (n-1) * MIN_TIME_BETWEEN_CONNECTS.
C2_AdmissionThrottle ==
    /\ \A i \in 1..(Len(admitted) - 1) :
          admitted[i + 1][2] - admitted[i][2] >= MIN_TIME_BETWEEN_CONNECTS
    /\ Len(admitted) >= 1 =>
          admitted[Len(admitted)][2] - admitted[1][2]
              >= (Len(admitted) - 1) * MIN_TIME_BETWEEN_CONNECTS

\* three sessions admitted as fast as the throttle allows
C2_Witness ==
    /\ Len(admitted) >= 3
    /\ admitted[3][2] - admitted[1][2] = 2 * MIN_TIME_BETWEEN_CONNECTS

\* C3: admission is first in, first out: a session is admitted only after
\* every session that connected before it was admitted or left the queue by
\* disconnecting, so PCONN messages carry increasing sessids.
C3_AdmissionFifo ==
    /\ \A i, j \in 1..Len(admitted) : i < j => admitted[i][1] < admitted[j][1]
    /\ \A j \in 1..Len(admitted) :
          \A a \in 1..(admitted[j][1] - 1) :
              \/ \E i \in 1..(j - 1) : admitted[i][1] = a
              \/ a \in pclosed /\ a \notin AdmittedSessids

\* two admissions, the second of a session that had to wait behind another
C3_Witness ==
    /\ Len(admitted) >= 2
    /\ admitted[2][1] \in DOMAIN queued_notice
    /\ CONNECTION_QUEUE # <<>>

\* ------------------------------------------------------------------------
\* Properties of clean_senddata
\* ------------------------------------------------------------------------
\* C9: cleaning an already clean payload (the result of an earlier
\* clean_senddata call, with the 'options' entry it placed) returns an equal
\* payload.
C9_CleanIdempotent == cs_n >= 2 => cs_kwargs = cs_prev

\* ------------------------------------------------------------------------
\* Properties of the inbound command throttle
\* ------------------------------------------------------------------------
\* C6: when more than MAX_COMMAND_RATE messages reached data_in within one
\* second, every further message of that second is rejected, whatever the
\* traffic before was.
C6_OverflowRejects ==
    (/\ Len(arrivals) >= MAX_COMMAND_RATE + 2
     /\ arrivals[Len(arrivals)] - arrivals[Len(arrivals) - MAX_COMMAND_RATE - 1]
            < TicksPerSecond)
        => data_result = "rejected"

\* C7: the overflow flag is never cleared sooner than one second after it
\* was last raised.
C7_ClearedAfterOneSecond ==
    [][(command_overflow /\ ~command_overflow') => now - raised_at >= TicksPerSecond]_vars

\* ------------------------------------------------------------------------
\* Properties of the Server handler
\* ------------------------------------------------------------------------
\* C4: under the single-session policy, a login(B, U) that is carried out
\* while U is logged in on other sessions removes each of them from the table
\* with one SDISCONN sent for it, and leaves B the one logged-in session of U.
C4_DuplicateLogin ==
    [][\A u \in Players, force \in BOOLEAN :
        LET b == server_op'.sid IN
          (/\ server_op'.op = "login"
           /\ stable'[b].uid = u
           /\ ServerLogin(b, u, force, FALSE)
           /\ MULTISESSION_MODE = 0
           /\ ~(stable[b].logged_in /\ ~force))
          => /\ \A a \in sessions_from_player(stable, u) \ {b} :
                   /\ a \notin DOMAIN stable'
                   /\ a \in DOMAIN sdisconn_sent'
                   /\ sdisconn_sent'[a] =
                        (IF a \in DOMAIN sdisconn_sent THEN sdisconn_sent[a] ELSE 0) + 1
             /\ sessions_from_player(stable', u) = {b}]_vars

\* a login under the single-session policy has just evicted a session
C4_Witness ==
    /\ server_op.op = "login"
    /\ server_op.n >= 1
    /\ MULTISESSION_MODE = 0
    /\ server_op.sid \in DOMAIN stable
    /\ sessions_from_player(stable, stable[server_op.sid].uid) = {server_op.sid}

\* C5: validate_sessions disconnects exactly the logged-in sessions idle for
\* more than IDLE_TIMEOUT, leaves every other session as it was, and
\* disconnects nothing when IDLE_TIMEOUT is zero or negative.
C5_IdleSweep ==
    [][(server_op'.op = "validate" /\ ServerValidateSessions) =>
          LET idle == IF IDLE_TIMEOUT > 0
                      THEN {k \in DOMAIN stable :
                               stable[k].logged_in /\ now - stable[k].cmd_last > IDLE_TIMEOUT}
                      ELSE {}
          IN  /\ DOMAIN stable' = DOMAIN stable \ idle
              /\ \A k \in DOMAIN stable' : stable'[k] = stable[k]
              /\ \A k \in idle : k \in DOMAIN sdisconn_sent']_vars

\* a sweep has just removed an idle session and kept a logged-in session that
\* was not idle for longer than the timeout
C5_Witness ==
    /\ server_op.op = "validate"
    /\ server_op.n >= 1
    /\ \E k \in DOMAIN stable :
          stable[k].logged_in /\ now - stable[k].cmd_last = IDLE_TIMEOUT

ServerEffects == <<stable, is_connected, s2p, sdisconn_sent, login_done, loginstart>>

\* C12: disconnect(session) and portal_session_sync(data) for a session id
\* that is not in the Server's table change nothing: no session is created,
\* no disconnect hook runs, no message is sent.
C12_AbsentNoOp ==
    [][LET sid == server_op'.sid IN
          (/\ sid \notin DOMAIN stable
           /\ \/ server_op'.op = "disconnect" /\ ServerDisconnect(sid)
              \/ server_op'.op = PCONNSYNC /\ ServerPortalSessionSync(SyncPayload(sid)))
          => UNCHANGED ServerEffects]_vars

\* a session that was disconnected has been disconnected a second time
C12_Witness ==
    /\ server_op.op = "disconnect"
    /\ server_op.sent = 0
    /\ server_op.sid \in DOMAIN sdisconn_sent
    /\ sdisconn_sent[server_op.sid] = 1
    /\ server_op.sid \notin DOMAIN stable

\* C18: login on a session that is logged in, without force, changes nothing:
\* nobody is disconnected, no SLOGIN is sent, the table is as it was.  With
\* force the login procedure runs again: SLOGIN is sent and the session is
\* the player's.
C18_LoginRefused ==
    [][\A u \in Players, force \in BOOLEAN :
        LET b == server_op'.sid IN
          (/\ server_op'.op = "login"
           /\ b \in DOMAIN stable
           /\ stable[b].logged_in
           /\ ServerLogin(b, u, force, FALSE))
          => IF force
             THEN /\ s2p' # s2p
                  /\ s2p'[Len(s2p')] = [operation |-> SLOGIN, sessid |-> b,
                                         sessiondata |-> [logged_in |-> TRUE]]
                  /\ stable'[b].logged_in /\ stable'[b].uid = u
             ELSE UNCHANGED ServerEffects]_vars

\* a login without force has just been refused for a logged-in session
C18_Witness ==
    /\ server_op.op = "login"
    /\ server_op.sent = 0
    /\ server_op.sid \in DOMAIN stable
    /\ stable[server_op.sid].logged_in

\* ------------------------------------------------------------------------
\* New connections on the Server
\* ------------------------------------------------------------------------
\* C19: when login is carried out for a player who had no other logged-in
\* session, the player's is_connected flag is true afterwards, also when
\* portal_connect logs in a session that arrives already authenticated.
C19_FirstLoginConnected ==
    [][LET b == server_op'.sid IN
          (/\ \/ /\ server_op'.op = "login"
                 /\ \E u \in Players, force \in BOOLEAN : ServerLogin(b, u, force, FALSE)
              \/ /\ server_op'.op = "portal_connect"
                 /\ \E auth \in ConnectAuths :
                       ServerPortalConnect(ConnectPayload(b, auth[1], auth[2]))
           /\ b \in login_done'
           /\ stable'[b].logged_in
           /\ sessions_from_player(stable, stable'[b].uid) \ {b} = {})
          => is_connected'[stable'[b].uid]]_vars

C17_SyncDiscards ==
    [][\A keys \in SUBSET DOMAIN stable :
          (server_op'.op = "sessions_sync" /\ ServerPortalSessionsSync(keys))
          => DOMAIN stable' = keys]_vars

\* ------------------------------------------------------------------------
\* Properties of disconnect on the Portal
\* ------------------------------------------------------------------------
\* C13: a session that called disconnect while it was still in the connection
\* queue has left the queue, no PDISCONN and no PCONN was ever sent for its
\* sessid, it was never admitted and it is not in the portal table, whatever
\* ticks fired afterwards.
C13_QueuedDropSilent ==
    \A sid \in dropped :
        /\ sid \notin QueueSessids
        /\ sid \notin DOMAIN ptable
        /\ sid \notin AdmittedSessids
        /\ \A i \in 1..Len(p2s) : p2s[i].sessid # sid

\* a session was dropped from the queue and a session that connected after it
\* was admitted by a later tick
C13_Witness ==
    \E sid \in dropped : \E k \in AdmittedSessids :
        /\ k > sid
        /\ \E i \in 1..Len(p2s) : p2s[i].operation = PCONN /\ p2s[i].sessid = k

\* C14: disconnect(session) of an admitted session removes its sessid from the
\* portal table and sends exactly one PDISCONN to the Server.
C14_DisconnectRemoves ==
    [][\A sid \in DOMAIN ptable :
          PortalDisconnect(sid)
          => /\ sid \notin DOMAIN ptable'
             /\ Len(p2s') = Len(p2s) + 1
             /\ p2s'[Len(p2s')].operation = PDISCONN
             /\ p2s'[Len(p2s')].sessid = sid]_vars

\* C15: server_session_sync(serversessions, clean=True) raises nothing and
\* leaves in the portal table exactly the sessions held before whose ids are
\* in serversessions; the disconnect hook of every other session was called.
C15_SyncCleans ==
    [][\A keys \in SUBSET (1..MaxSessions) :
          PortalServerSessionSync(keys, TRUE)
          => /\ ~portal_op'.err
             /\ DOMAIN ptable' = DOMAIN ptable \cap keys
             /\ portal_op'.hooked = DOMAIN ptable \ keys]_vars

\* C16: after server_disconnect(session, reason) the session's sessid is not
\* a key of the portal table, and after server_disconnect_all(reason) the
\* portal table is empty, whether or not a session's own disconnect hook
\* removed its entry.
C16_TeardownCleans ==
    [][/\ \A sid \in DOMAIN ptable : \A removes \in BOOLEAN :
             PortalServerDisconnect(sid, removes) => sid \notin DOMAIN ptable'
       /\ \A removed \in SUBSET DOMAIN ptable :
             PortalServerDisconnectAll(removed) => DOMAIN ptable' = {}]_vars

\* ------------------------------------------------------------------------
\* Properties of the two tables under a full resync
\* ------------------------------------------------------------------------
\* C11: an id whose entry was removed from a handler's table never gets an
\* entry in that table again: an id that enters the Server's table was never
\* disconnected there, and an id that enters the Portal's table was never
\* admitted before, whatever messages and snapshots are in flight.
C11_NoResurrection ==
    [][/\ \A sid \in DOMAIN stable' \ DOMAIN stable : sid \notin DOMAIN sdisconn_sent
       /\ \A sid \in DOMAIN ptable' \ DOMAIN ptable : sid \notin AdmittedSessids]_vars

\* ------------------------------------------------------------------------
\* Properties of sync(session)
\* ------------------------------------------------------------------------
\* C21: sync(session) sends a PCONNSYNC only for a session that has a sessid
\* and was admitted, and nothing for a session still in the queue; the data
\* sent has only keys of the fixed subset, never logged_in or uid; and the
\* Server's handling of a PCONNSYNC leaves the sessions it holds, their
\* logged_in and uid and the players' connected flags as they were.
C21_LateSync ==
    [][/\ \A session \in SyncCandidates :
             PortalSessionSync(session)
             => /\ session \in Range(CONNECTION_QUEUE) => p2s' = p2s
                /\ p2s' # p2s
                   => /\ session.sessid \in AdmittedSessids
                      /\ session.server_connected
                      /\ p2s' = Append(p2s, p2s'[Len(p2s')])
                      /\ p2s'[Len(p2s')].operation = PCONNSYNC
                      /\ DOMAIN p2s'[Len(p2s')].sessiondata \subseteq
                            {"protocol_key", "address", "sessid", "csessid", "conn_time",
                             "protocol_flags", "server_data"}
       /\ (server_op'.op = PCONNSYNC /\ DeliverP2S)
          => /\ DOMAIN stable' = DOMAIN stable
             /\ \A k \in DOMAIN stable :
                   /\ stable'[k].logged_in = stable[k].logged_in
                   /\ stable'[k].uid = stable[k].uid
             /\ is_connected' = is_connected]_vars

\* the Server has handled the PCONNSYNC of a session that is logged in
C21_Witness ==
    /\ server_op.op = PCONNSYNC
    /\ server_op.sid \in DOMAIN stable
    /\ stable[server_op.sid].logged_in
    /\ CONNECTION_QUEUE # <<>>

\* ------------------------------------------------------------------------
\* Properties of ServerSessionHandler.data_in
\* ------------------------------------------------------------------------
\* the payload of the call at hand holds only [cmdargs, cmdkwargs] pairs
InputWellFormed == \A i \in 1..Len(io_call.payload) : io_call.payload[i].shape = "pair"

\* the instructions of the call at hand whose handling raises inside the try
InputFailures ==
    {i \in 1..Len(io_call.payload) :
        \/ io_call.payload[i].shape = "badkwargs"
        \/ io_call.payload[i].shape = "pair" /\ InputCallRaises(io_call.payload[i])}

\* C22: data_in lets no failure of an instruction escape: every failure,
\* also of a malformed instruction, is logged and echoed only with
\* INPUTDEBUG on, and every other instruction of the payload is dispatched.
C22_DataInContains ==
    (io_call.op = "data_in" /\ io_result.done /\ io_call.session)
    => /\ ~io_result.escaped
       /\ io_result.logged = Cardinality(InputFailures)
       /\ io_result.echoed = (IF io_call.debug THEN io_result.logged ELSE 0)
       /\ \A i \in 1..Len(io_call.payload) :
             io_call.payload[i].shape = "pair"
             => \E c \in 1..Len(io_result.calls) :
                   io_result.calls[c].of = io_call.payload[i].cmdname

\* the input function and arguments the dispatch rule names for an instruction
InputRule(instr) ==
    [of |-> instr.cmdname,
     func |-> IF CName(instr.cmdname) \in INPUT_FUNCS THEN CName(instr.cmdname)
              ELSE "default",
     args |-> IF CName(instr.cmdname) \in INPUT_FUNCS THEN instr.cmdargs
              ELSE <<CName(instr.cmdname)>> \o instr.cmdargs]

\* each instruction of the payload had exactly its one input function called
InputDispatched ==
    /\ Len(io_result.calls) = Len(io_call.payload)
    /\ \A i \in 1..Len(io_call.payload) : io_result.calls[i] = InputRule(io_call.payload[i])

\* C23 as stated: for each instruction of any payload given to data_in
\* exactly one input function is called, the table's entry for the stripped,
\* lower-cased name or else default with that name as first argument.
C23_DispatchAny ==
    (io_call.op = "data_in" /\ io_result.done) => InputDispatched

\* C23: for a session and a payload whose values are all [cmdargs, cmdkwargs]
\* pairs, exactly one input function is called for each instruction: the
\* table's entry for the stripped, lower-cased name when there is one, and
\* otherwise default with that name as first argument.
C23_Dispatch ==
    (io_call.op = "data_in" /\ io_result.done /\ io_call.session /\ InputWellFormed)
    => InputDispatched

\* a payload of two pairs was dispatched, one instruction to its own input
\* function and one to default
C23_Witness ==
    /\ io_call.op = "data_in" /\ io_result.done /\ io_call.session /\ InputWellFormed
    /\ Len(io_result.calls) = 2
    /\ \E c \in 1..2 : io_result.calls[c].func = "echo" /\ io_result.calls[c].of = " Echo "
    /\ \E c \in 1..2 : io_result.calls[c].func = "default" /\ io_result.calls[c].args = <<"look", "hi">>

\* ------------------------------------------------------------------------
\* Properties of PortalSessionHandler.data_out
\* ------------------------------------------------------------------------
\* the send routine and arguments the delivery rule names for an instruction
OutputRule(instr) ==
    [of |-> instr.cmdname,
     func |-> IF CName(instr.cmdname) \in SESSION_SENDS THEN CName(instr.cmdname)
              ELSE "default",
     args |-> IF CName(instr.cmdname) \in SESSION_SENDS THEN instr.cmdargs
              ELSE <<instr.cmdname>> \o instr.cmdargs]

\* C24: for a session and a well-formed payload data_out does not raise and
\* delivers every instruction on its own: to send_<name> when the session has
\* it and else to send_default with the name as first argument; a send that
\* raises is logged and the instructions after it are delivered all the same.
C24_DataOutDelivers ==
    (io_call.op = "data_out" /\ io_result.done /\ io_call.session /\ InputWellFormed)
    => /\ ~io_result.escaped
       /\ Len(io_result.calls) = Len(io_call.payload)
       /\ \A i \in 1..Len(io_call.payload) :
             io_result.calls[i] = OutputRule(io_call.payload[i])
       /\ io_result.logged =
             Cardinality({i \in 1..Len(io_call.payload) : OutCallRaises(io_call.payload[i])})

\* the first send of a payload raised and was logged, and the instruction
\* after it went to send_default
C24_Witness ==
    /\ io_call.op = "data_out" /\ io_result.done /\ io_call.session /\ InputWellFormed
    /\ Len(io_call.payload) = 2
    /\ io_call.payload[1].raises
    /\ io_result.logged = 1
    /\ io_result.calls[1].func = "text"
    /\ io_result.calls[2].func = "default"
    /\ io_result.calls[2].args = <<" Echo ", "hi">>

\* the positional arguments the docstring of clean_senddata (lines 139-144)
\* names for an instruction value: arg -> [arg], [args] -> [args],
\* {kwargs} -> [], [args..., {kwargs}] -> [args...], [[args], {kwargs}] -> [args]
DocumentedArgs(data) ==
    LET n == Len(data.c)
    IN  IF data.t = "dict" THEN <<>>
        ELSE IF data.t \in {"list", "tuple"}
        THEN IF n > 0 /\ data.c[n].t = "dict"
             THEN IF n = 2 /\ data.c[1].t \in {"list", "tuple"}
                  THEN data.c[1].c
                  ELSE SubSeq(data.c, 1, n - 1)
             ELSE data.c
        ELSE <<data>>

\* the keyword arguments the docstring names for an instruction value
DocumentedKwargs(data) ==
    IF data.t = "dict" THEN data
    ELSE IF data.t \in {"list", "tuple"} /\ data.c # <<>> /\ data.c[Len(data.c)].t = "dict"
    THEN data.c[Len(data.c)]
    ELSE PyDict({})

\* C25: clean_senddata turns every instruction value into the pair
\* [positional_args list, keyword_args dict] its docstring names for the
\* value's form, a bare value arg giving [[arg], {}]; the dict of every pair
\* has the key 'options', and 'options' itself is no instruction of the
\* output.
C25_CanonicalPairs ==
    cs_n = 1
    => /\ ~HasKey(cs_kwargs, "options")
       /\ \A e \in DictPop(cs_prev, "options").d :
             /\ HasKey(cs_kwargs, e.k)
             /\ LET out == DictGet(cs_kwargs, e.k, PyNone)
                IN  /\ out.t = "list" /\ Len(out.c) = 2
                    /\ out.c[1].t = "list"
                    /\ out.c[2].t = "dict"
                    /\ HasKey(out.c[2], "options")
                    /\ Len(out.c[1].c) = Len(DocumentedArgs(e.v))
                    /\ {x.k : x \in out.c[2].d} =
                          {x.k : x \in DocumentedKwargs(e.v).d} \cup {"options"}

RECURSIVE WireSafe(_)
\* a value made of strings, numbers, booleans and None and of lists and
\* dicts of such values
WireSafe(x) ==
    CASE x.t \in {"str", "unicode", "num", "bool", "none"} -> TRUE
      [] x.t = "list" -> \A i \in 1..Len(x.c) : WireSafe(x.c[i])
      [] x.t = "dict" -> \A e \in x.d : WireSafe(e.v)
      [] OTHER -> FALSE

\* C26: a payload that clean_senddata has cleaned for the other process holds
\* only strings, numbers, booleans and lists and dicts of those: every object
\* of the input, at any depth, has become its display string.
C26_WireSafe == cs_n >= 1 => WireSafe(cs_kwargs)

\* ------------------------------------------------------------------------
\* Properties of server_connect
\* ------------------------------------------------------------------------
\* the path names a class of a module that can be imported
Resolvable(protocol_path) ==
    /\ Len(protocol_path) >= 2
    /\ SubSeq(protocol_path, 1, Len(protocol_path) - 1) \in FactoryModules
    /\ protocol_path[Len(protocol_path)] \in FactoryClasses

\* C27: server_connect with a path that names no protocol factory (unknown
\* module or class, or no dotted class part) raises RuntimeError, makes and
\* starts no protocol and leaves the session table, the connection queue and
\* latest_sessid as they were.
C27_UnresolvedRaises ==
    [][\A protocol_path \in ProtocolPaths :
          (PortalServerConnect(protocol_path) /\ ~Resolvable(protocol_path))
          => /\ io_result'.raised = "RuntimeError"
             /\ ~io_result'.started
             /\ UNCHANGED <<ptable, CONNECTION_QUEUE, latest_sessid>>]_vars

\* ------------------------------------------------------------------------
\* Properties of disconnect_duplicate_sessions
\* ------------------------------------------------------------------------
\* C28: disconnect_duplicate_sessions(current) removes exactly the other
\* logged-in sessions with current's uid and sends one SDISCONN for each;
\* current, the sessions of other players and the sessions not logged in
\* stay in the table as they were.
C28_DuplicatesOnly ==
    [][LET cur == server_op'.sid
           gone == {k \in DOMAIN stable :
                      k # cur /\ stable[k].logged_in /\ stable[k].uid = stable[cur].uid}
       IN  (server_op'.op = "duplicates" /\ ServerDisconnectDuplicates(cur))
           => /\ DOMAIN stable' = DOMAIN stable \ gone
              /\ \A k \in DOMAIN stable' : stable'[k] = stable[k]
              /\ Len(s2p') = Len(s2p) + Cardinality(gone)
              /\ \A k \in gone :
                    Cardinality({i \in 1..Len(s2p') :
                                   s2p'[i] = [operation |-> SDISCONN, sessid |-> k]}) = 1]_vars

\* one duplicate was disconnected while current, a session of another player
\* or of nobody stayed
C28_Witness ==
    /\ server_op.op = "duplicates"
    /\ server_op.n = 1
    /\ server_op.sid \in DOMAIN stable
    /\ stable[server_op.sid].logged_in
    /\ \E k \in DOMAIN stable : stable[k].uid # stable[server_op.sid].uid

\* ------------------------------------------------------------------------
\* Properties of the queued notice
\* ------------------------------------------------------------------------
\* C29: whenever the connection queue holds more than one entry, every
\* session waiting in it has been sent the queued notice.
C29_AllQueuedNoticed ==
    Len(CONNECTION_QUEUE) > 1
    => \A i \in 1..Len(CONNECTION_QUEUE) :
          CONNECTION_QUEUE[i].sessid \in DOMAIN queued_notice

\* C29 (amended): a session is sent the notice when it connects and the
\* queue, with it, then holds more than one entry, with a wait of that queue
\* length times the minimum interval; no other session is sent one then. So
\* every waiting session but the oldest has been sent the notice.
C29_QueuedNotice ==
    /\ [](\A i \in 1..Len(CONNECTION_QUEUE) :
             i # PopIndex(CONNECTION_QUEUE)
             => CONNECTION_QUEUE[i].sessid \in DOMAIN queued_notice)
    /\ [][\A loggedin \in BOOLEAN, uid \in Players \cup {NoUid} :
             PortalConnect(loggedin, uid)
             => IF Len(CONNECTION_QUEUE) >= 1
                THEN /\ DOMAIN queued_notice' = DOMAIN queued_notice \cup {latest_sessid'}
                     /\ queued_notice'[latest_sessid'] =
                           (Len(CONNECTION_QUEUE) + 1) * MIN_TIME_BETWEEN_CONNECTS
                     /\ \A k \in DOMAIN queued_notice : queued_notice'[k] = queued_notice[k]
                ELSE queued_notice' = queued_notice]_vars

\* two sessions wait: the older was never sent a notice, the newer was told
\* a wait of two intervals
C29_Witness ==
    /\ Len(CONNECTION_QUEUE) = 2
    /\ CONNECTION_QUEUE[2].sessid \notin DOMAIN queued_notice
    /\ CONNECTION_QUEUE[1].sessid \in DOMAIN queued_notice
    /\ queued_notice[CONNECTION_QUEUE[1].sessid] = 2 * MIN_TIME_BETWEEN_CONNECTS

\* ------------------------------------------------------------------------
\* Properties of EvMenu
\* ------------------------------------------------------------------------
\* C30: a menu whose current node returned no options (None or empty) has
\* been exited on entering that node: the menu cmdset is off the caller,
\* caller.ndb._menutree is deleted and cmd_on_exit was executed; the start
\* node included.
C30_NoOptionsExits ==
    (menu.exists /\ menu.node \in DOMAIN menu.tree /\ ~HasOptions(menu.tree[menu.node]))
    => /\ ~caller.cmdset
       /\ ~caller.ndb
       /\ caller.executed >= 1

\* a node without options that was entered by an input has closed the menu
MenuExitsAfterInput ==
    (/\ menu.exists
     /\ menu.via = "input"
     /\ menu.node \in DOMAIN menu.tree
     /\ ~HasOptions(menu.tree[menu.node]))
    => /\ ~caller.cmdset
       /\ ~caller.ndb
       /\ caller.executed >= 1

\* ------------------------------------------------------------------------
\* Properties of the admission tick
\* ------------------------------------------------------------------------
\* C31: at most one scheduled connect(None) is pending at any time, and
\* connection_task is set exactly when one is pending.
C31_OneTick ==
    /\ Len(connect_calls) <= 1
    /\ (connection_task # None) <=> (Len(connect_calls) = 1)

\* one tick is pending while two sessions wait and one was admitted before
C31_Witness ==
    /\ Len(connect_calls) = 1
    /\ connection_task # None
    /\ Len(CONNECTION_QUEUE) >= 2
    /\ admitted # <<>>

\* a call of connect, with a session or as the scheduled tick
ConnectCall == (\E loggedin \in BOOLEAN, uid \in Players \cup {NoUid} :
                   PortalConnect(loggedin, uid)) \/ ConnectTick

\* what a deferring call leaves alone: nothing is admitted or sent and the
\* sessions that waited still wait in their order
DeferKeeps ==
    /\ UNCHANGED <<ptable, p2s, admitted>>
    /\ Len(CONNECTION_QUEUE') >= Len(CONNECTION_QUEUE)
    /\ SubSeq(CONNECTION_QUEUE', Len(CONNECTION_QUEUE') - Len(CONNECTION_QUEUE) + 1,
              Len(CONNECTION_QUEUE')) = CONNECTION_QUEUE

C33_OverflowRejectsClean ==
    [][\A sid \in 1..MaxSessions, kwargs \in DataPayloads :
          (command_overflow /\ PortalDataIn(sid, kwargs))
          => /\ data_result' = "rejected"
             /\ UNCHANGED <<p2s, command_counter, ptable, CONNECTION_QUEUE>>]_vars

\* a call was rejected at a time after the flag was raised
C33_Witness ==
    /\ command_overflow
    /\ data_result = "rejected"
    /\ raised_at < now
    /\ arrivals # <<>>
    /\ arrivals[Len(arrivals)] = now

\* ------------------------------------------------------------------------
\* Properties of server_session_sync
\* ------------------------------------------------------------------------
\* C34: server_session_sync never makes a portal entry for a sessid the
\* Portal does not hold, and with clean=False it removes and disconnects no
\* session and raises nothing, whatever sessids the data names: the sessions
\* named take over the data, the others stay as they were.
C34_SyncInPlace ==
    [][LET keys == portal_op'.keys
           clean == portal_op'.clean
       IN  (portal_op'.op = "server_session_sync" /\ PortalServerSessionSync(keys, clean))
          => /\ DOMAIN ptable' \subseteq DOMAIN ptable
             /\ ~clean
                => /\ DOMAIN ptable' = DOMAIN ptable
                   /\ ~portal_op'.err
                   /\ portal_op'.hooked = {}
                   /\ \A k \in DOMAIN ptable :
                         ptable'[k] = IF k \in keys
                                      THEN load_sync_data(ptable[k], ServerSessionsData(keys)[k])
                                      ELSE ptable[k]
                   /\ UNCHANGED <<CONNECTION_QUEUE, p2s, pclosed>>]_vars

\* a sync with clean=False named a session held and one not held, and left
\* out a session held
C34_Witness ==
    /\ portal_op.op = "server_session_sync"
    /\ ~portal_op.clean
    /\ portal_op.keys \cap DOMAIN ptable # {}
    /\ portal_op.keys \ DOMAIN ptable # {}
    /\ DOMAIN ptable \ portal_op.keys # {}
    /\ \A k \in DOMAIN ptable : ptable[k].logged_in <=> k \in portal_op.keys

\* ------------------------------------------------------------------------
\* Properties of the text input function
\* ------------------------------------------------------------------------
\* C35: when the stripped text is an idle command (settings.IDLE_COMMAND or
\* "idle"), text only updates the session counters with idle=True and gives
\* nothing to the command handler; without a text argument it does nothing.
C35_IdleWorks ==
    io_result.done
    => /\ io_call.args = <<>>
          => io_result.counters = "none" /\ io_result.cmd = PyNone
       /\ (io_call.args # <<>> /\ Strip(io_call.args[1]) \in {io_call.setting, "idle"})
          => io_result.counters = "idle" /\ io_result.cmd = PyNone

\* ------------------------------------------------------------------------
\* Liveness of admission
\* ------------------------------------------------------------------------
\* C36: with the link up and the tick firing when due, every session put on
\* the connection queue is eventually admitted (stored in the table, its
\* PCONN sent), also while further connections keep arriving.
C36_EventuallyAdmitted ==
    \A sid \in 1..MaxSessions :
        (sid \in QueueSessids)
        ~> (/\ sid \in DOMAIN ptable
            /\ \E i \in 1..Len(p2s) : p2s[i].operation = PCONN /\ p2s[i].sessid = sid)

\* ------------------------------------------------------------------------
\* Properties of the Portal's table and queue
\* ------------------------------------------------------------------------
\* C37: every table entry is stored under its own sessid and has
\* server_connected = True, every queued session has server_connected =
\* False, and no session is in the queue and in the table at once.
C37_TableAndQueue ==
    /\ \A k \in DOMAIN ptable : ptable[k].sessid = k /\ ptable[k].server_connected
    /\ \A i \in 1..Len(CONNECTION_QUEUE) : ~CONNECTION_QUEUE[i].server_connected
    /\ QueueSessids \cap DOMAIN ptable = {}

\* a session is in the table, another waits, and a third left the queue by
\* disconnecting
C37_Witness ==
    /\ ptable # <<>>
    /\ CONNECTION_QUEUE # <<>>
    /\ dropped # {}

\* ------------------------------------------------------------------------
\* Properties of the Server's own removals
\* ------------------------------------------------------------------------
\* the SDISCONN notices for sid among the messages msgs
Sdisconns(msgs, sid) ==
    {i \in 1..Len(msgs) : msgs[i].operation = SDISCONN /\ msgs[i].sessid = sid}

\* C38: every removal of a session by the Server (disconnect, idle sweep,
\* eviction at login) takes the entry out of the Server's table and sends
\* exactly one SDISCONN for it, and none for a session it keeps; and once
\* that SDISCONN was delivered to server_disconnect the id is in neither
\* table, then and afterwards.
C38_RemovalNotified ==
    /\ [](\A sid \in DOMAIN sdisconn_sent :
            /\ sdisconn_sent[sid] = 1
            /\ sid \notin DOMAIN stable
            /\ Cardinality(Sdisconns(s2p, sid)) <= 1
            /\ Sdisconns(s2p, sid) = {} => sid \notin DOMAIN ptable)
    /\ [][/\ \A sid \in DOMAIN stable \ DOMAIN stable' :
               /\ sid \notin DOMAIN sdisconn_sent
               /\ sid \in DOMAIN sdisconn_sent'
               /\ sdisconn_sent'[sid] = 1
               /\ Cardinality(Sdisconns(s2p', sid)) = 1
          /\ \A sid \in DOMAIN stable' :
               sid \notin DOMAIN sdisconn_sent' /\ Sdisconns(s2p', sid) = {}
          /\ (s2p # <<>> /\ s2p' = Tail(s2p) /\ s2p[1].operation = SDISCONN)
                => s2p[1].sessid \notin DOMAIN ptable' \cup DOMAIN stable']_vars

\* the login of a second session evicted the first, which the Portal held,
\* and the notice was delivered: the evicted id is in neither table
C38_Witness ==
    /\ server_op.op = "login"
    /\ server_op.n = 1
    /\ s2p = <<>>
    /\ \E sid \in DOMAIN sdisconn_sent :
          /\ sid \in AdmittedSessids
          /\ sid \notin pclosed
          /\ sid \notin DOMAIN ptable \cup DOMAIN stable

\* ------------------------------------------------------------------------
\* Properties of the overflow-reset callbacks
\* ------------------------------------------------------------------------
\* C39: the scheduled data_in(None) callbacks do not accumulate: at any time
\* at most two of them are pending, the one armed when the flag was raised
\* and one trailing re-check armed when it was cleared, however long the
\* flood of input lasts.
C39_AtMostTwoPending == Len(datain_calls) <= 2

\* ------------------------------------------------------------------------
\* Properties of closing a menu
\* ------------------------------------------------------------------------
\* C40: a menu is closed at most once, whatever the user enters: close_menu
\* (the menu cmdset removed, caller.ndb._menutree deleted, cmd_on_exit
\* executed) is entered once per menu, cmd_on_exit is executed once and the
\* deletion never finds the attribute gone, also when the user enters the
\* quit command at a node without options and without a default.
C40_ClosedOnce ==
    /\ caller.closes <= 1
    /\ caller.executed <= 1
    /\ caller.raised # "AttributeError"

====
